---- MODULE Spec2Model ----
(***************************************************************************)
(* Model of the ConservationVision Watershed Impact Model functions        *)
(* (WtrshdImpact_Functions.py).  Each function of the script is one        *)
(* action; rasters are functions from a small set of cells to a cell value *)
(* (an exact rational <<n, d>> or NoData), the geodatabase is a function   *)
(* from raster names to rasters, and arcpy.env is a record.                *)
(***************************************************************************)
EXTENDS Integers, Sequences, FiniteSets, TLC

VARIABLES
    pc,       \* "idle" before the call, "done" after it returned or raised
    call,     \* the call made: function name and arguments
    outcome,  \* "none", "ok", or the name of the exception that ended the call
    ret,      \* the value returned by the call (<<>> when none)
    printed,  \* the abort/failure messages printed by the call
    gdb,      \* rasters on disk: name -> raster
    vat,      \* attribute table of the land-cover raster: field -> (code -> value)
    env       \* arcpy.env settings

vars == <<pc, call, outcome, ret, printed, gdb, vat, env>>

(***************************************************************************)
(* Bounds of the model.                                                    *)
(***************************************************************************)
NCells == 2
Cells == 1..NCells

(***************************************************************************)
(* Cell values: exact rationals <<n, d>> with d > 0 in lowest terms, and   *)
(* NoData.  A comparison yields the 1/0 integer raster arcpy yields.       *)
(***************************************************************************)
ND == <<>>

Abs(x) == IF x < 0 THEN -x ELSE x

RECURSIVE GCD(_, _)
GCD(a, b) == IF b = 0 THEN a ELSE GCD(b, a % b)

Q(n, d) ==
    LET s == IF d < 0 THEN -1 ELSE 1
        g == GCD(Abs(n), Abs(d))
    IN  <<(s * n) \div g, (s * d) \div g>>

I(k) == <<k, 1>>
TrueCell == I(1)
FalseCell == I(0)
Bool(b) == IF b THEN TrueCell ELSE FalseCell

Add(x, y) ==
    IF x = ND \/ y = ND THEN ND
    ELSE LET g == GCD(x[2], y[2])
             l == (x[2] \div g) * y[2]
         IN  Q(x[1] * (l \div x[2]) + y[1] * (l \div y[2]), l)

Neg(x) == IF x = ND THEN ND ELSE <<-x[1], x[2]>>
Sub(x, y) == Add(x, Neg(y))

Mul(x, y) ==
    IF x = ND \/ y = ND THEN ND
    ELSE LET a == Q(x[1], y[2])
             b == Q(y[1], x[2])
         IN  Q(a[1] * b[1], a[2] * b[2])

\* Map algebra: a division by zero yields NoData in the cell, not an exception.
Div(x, y) ==
    IF x = ND \/ y = ND THEN ND
    ELSE IF y[1] = 0 THEN ND
    ELSE Mul(x, Q(y[2], y[1]))

Less(x, y) == Sub(x, y)[1] < 0
Leq(x, y) == Sub(x, y)[1] <= 0

EqC(x, y) == IF x = ND \/ y = ND THEN ND ELSE Bool(x = y)
GtC(x, y) == IF x = ND \/ y = ND THEN ND ELSE Bool(Less(y, x))
LtC(x, y) == IF x = ND \/ y = ND THEN ND ELSE Bool(Less(x, y))
LeC(x, y) == IF x = ND \/ y = ND THEN ND ELSE Bool(Leq(x, y))

\* Con(condition, true value, false value) in one cell; ConT has no false value.
Con(c, t, f) == IF c = ND THEN ND ELSE IF c[1] # 0 THEN t ELSE f
ConT(c, t) == Con(c, t, ND)

\* Int(): truncation toward zero.
IntC(x) ==
    IF x = ND THEN ND
    ELSE IF x[1] >= 0 THEN I(x[1] \div x[2]) ELSE I(-((-x[1]) \div x[2]))

MinC(x, y) == IF x = ND \/ y = ND THEN ND ELSE IF Less(y, x) THEN y ELSE x

RastersOver(vals) == [Cells -> vals]

\* An argument is a raster path or a number.
Path(p) == [path |-> p]
Num(q) == [num |-> q]
IsPath(a) == "path" \in DOMAIN a

\* The value of a field (raster or constant) in one cell.
CellOf(a, c) == IF IsPath(a) THEN gdb[a.path][c] ELSE a.num

(***************************************************************************)
(* arcpy.env                                                               *)
(***************************************************************************)
EnvDefault == [overwriteOutput |-> FALSE, mask |-> "NONE"]

Save(name, r) == (name :> r) @@ gdb

(***************************************************************************)
(* curvNum                                                                 *)
(***************************************************************************)
dictA ==
    (11 :> 0) @@ (21 :> 49) @@ (22 :> 61) @@ (23 :> 77) @@ (24 :> 89) @@
    (31 :> 77) @@ (32 :> 0) @@ (41 :> 30) @@ (42 :> 30) @@ (43 :> 30) @@
    (52 :> 30) @@ (71 :> 30) @@ (81 :> 39) @@ (82 :> 67) @@ (90 :> 0) @@
    (95 :> 0)

\* The table of group B with shrubland (52) below its group A value.
dictBLow ==
    (11 :> 0) @@ (21 :> 69) @@ (22 :> 75) @@ (23 :> 85) @@ (24 :> 92) @@
    (31 :> 86) @@ (32 :> 0) @@ (41 :> 55) @@ (42 :> 55) @@ (43 :> 55) @@
    (52 :> 25) @@ (71 :> 58) @@ (81 :> 61) @@ (82 :> 78) @@ (90 :> 0) @@
    (95 :> 0)

dictB ==
    (11 :> 0) @@ (21 :> 69) @@ (22 :> 75) @@ (23 :> 85) @@ (24 :> 92) @@
    (31 :> 86) @@ (32 :> 0) @@ (41 :> 55) @@ (42 :> 55) @@ (43 :> 55) @@
    (52 :> 48) @@ (71 :> 58) @@ (81 :> 61) @@ (82 :> 78) @@ (90 :> 0) @@
    (95 :> 0)

dictC ==
    (11 :> 0) @@ (21 :> 79) @@ (22 :> 83) @@ (23 :> 90) @@ (24 :> 94) @@
    (31 :> 91) @@ (32 :> 0) @@ (41 :> 70) @@ (42 :> 70) @@ (43 :> 70) @@
    (52 :> 65) @@ (71 :> 71) @@ (81 :> 74) @@ (82 :> 85) @@ (90 :> 0) @@
    (95 :> 0)

dictD ==
    (11 :> 0) @@ (21 :> 84) @@ (22 :> 87) @@ (23 :> 92) @@ (24 :> 95) @@
    (31 :> 94) @@ (32 :> 0) @@ (41 :> 77) @@ (42 :> 77) @@ (43 :> 77) @@
    (52 :> 73) @@ (71 :> 78) @@ (81 :> 80) @@ (82 :> 89) @@ (90 :> 0) @@
    (95 :> 0)

m == [A |-> dictA, B |-> dictB, C |-> dictC, D |-> dictD]

hydroGrps == <<"A", "B", "C", "D">>

cnFld == [A |-> "cn_A", B |-> "cn_B", C |-> "cn_C", D |-> "cn_D"]

\* The field calculator's code block (lines 500-505): an absent key gives 0.
curvnum(code, dic) == IF code \in DOMAIN dic THEN dic[code] ELSE 0

\* The land-cover codes that have a row in the attribute table.
VatCodes(lc) == {lc[c][1] : c \in {k \in Cells : lc[k] # ND}}

\* The loop over the groups leaving only the cn_ fields in the table.
CalcCnFieldsOnly(lc, tab) ==
    [f \in {cnFld[hydroGrps[i]] : i \in 1..4} |->
        LET g == CHOOSE g \in {"A", "B", "C", "D"} : cnFld[g] = f
        IN  [code \in VatCodes(lc) |-> curvnum(code, m[g])]]

\* The attribute table after the loop over the groups: an existing cn_ field
\* is deleted, added again and calculated from VALUE.
CalcCnFields(lc, tab) ==
    [f \in DOMAIN tab \cup {cnFld[hydroGrps[i]] : i \in 1..4} |->
        IF \E i \in 1..4 : cnFld[hydroGrps[i]] = f
        THEN LET g == CHOOSE g \in {"A", "B", "C", "D"} : cnFld[g] = f
             IN  [code \in VatCodes(lc) |-> curvnum(code, m[g])]
        ELSE tab[f]]

\* Lookup(in_LC, field) in one cell.
Lookup(lc, tab, fld, c) == IF lc[c] = ND THEN ND ELSE I(tab[fld][lc[c][1]])

\* Line 512: the curve number raster from the attribute table fields.
cnFromRaster(lc, tab, hg) ==
    [c \in Cells |->
        Con(EqC(hg[c], I(1)), Lookup(lc, tab, "cn_A", c),
        Con(EqC(hg[c], I(2)), Lookup(lc, tab, "cn_B", c),
        Con(EqC(hg[c], I(3)), Lookup(lc, tab, "cn_C", c),
        ConT(EqC(hg[c], I(4)), Lookup(lc, tab, "cn_D", c)))))]

\* Line 516: the four dictionaries are indexed with the constant itself.
HasKeys(k) == k \in DOMAIN dictA /\ k \in DOMAIN dictB /\ k \in DOMAIN dictC /\ k \in DOMAIN dictD

cnFromConstant(k, hg) ==
    [c \in Cells |->
        Con(EqC(hg[c], I(1)), I(dictA[k]),
        Con(EqC(hg[c], I(2)), I(dictB[k]),
        Con(EqC(hg[c], I(3)), I(dictC[k]),
        ConT(EqC(hg[c], I(4)), I(dictD[k])))))]

\* Inputs of the curve number runs.
LCSamples == {I(11), I(31), I(12), ND}
LCConstants == {31, 11, 12}
HGSamples == {I(1), I(2), I(3), I(4), ND}

\* The attribute table before a run: VALUE only, or also a COUNT field and a
\* cn_A field left by an earlier run.
VatSamples(lc) ==
    {<<>>, ("COUNT" :> [code \in VatCodes(lc) |-> 1]) @@ ("cn_A" :> [code \in VatCodes(lc) |-> 0])}

InitCurvNum ==
    /\ pc = "idle"
    /\ call = [fn |-> "none"]
    /\ outcome = "none"
    /\ ret = <<>>
    /\ printed = <<>>
    /\ \E lc \in RastersOver(LCSamples), hg \in RastersOver(HGSamples) :
          /\ gdb = ("landCover" :> lc) @@ ("hydroGrp" :> hg)
          /\ vat \in VatSamples(lc)
    /\ env = EnvDefault

curvNum(in_LC, in_HydroGrp, out_CN) ==
    /\ pc = "idle"
    /\ pc' = "done"
    /\ call' = [fn |-> "curvNum", in_LC |-> in_LC, in_HydroGrp |-> in_HydroGrp,
                out_CN |-> out_CN]
    /\ env' = [env EXCEPT !.overwriteOutput = TRUE]
    /\ ret' = <<>>
    /\ printed' = printed
    /\ LET hg == gdb[in_HydroGrp]
       IN  IF IsPath(in_LC)
           THEN LET lc == gdb[in_LC.path]
                    tab == CalcCnFields(lc, vat)
                IN  /\ vat' = tab
                    /\ gdb' = Save(out_CN, cnFromRaster(lc, tab, hg))
                    /\ outcome' = "ok"
           ELSE IF HasKeys(in_LC.num)
                THEN /\ gdb' = Save(out_CN, cnFromConstant(in_LC.num, hg))
                     /\ outcome' = "ok"
                     /\ vat' = vat
                ELSE /\ outcome' = "KeyError"
                     /\ UNCHANGED <<gdb, vat>>

CallCurvNum ==
    \E in_LC \in {Path("landCover")} \cup {Num(k) : k \in LCConstants} :
        curvNum(in_LC, "hydroGrp", "curvNum")

NextCurvNum == CallCurvNum

SpecCurvNum == InitCurvNum /\ [][NextCurvNum]_vars

(***************************************************************************)
(* C1 (as claimed): a land-cover code that is no key of the curve-number   *)
(* table yields curve number 0 and never a failure, for a land-cover       *)
(* raster and for a constant class alike, in every cell whose hydrologic   *)
(* group is 1..4.                                                          *)
(***************************************************************************)
IsGroup(h) == h \in {I(1), I(2), I(3), I(4)}

C1_UnmatchedCodeGivesZero ==
    (pc = "done" /\ call.fn = "curvNum") =>
        LET hg == gdb[call.in_HydroGrp]
        IN  /\ outcome = "ok"
            /\ \A c \in Cells :
                  LET code == IF IsPath(call.in_LC) THEN gdb[call.in_LC.path][c]
                              ELSE I(call.in_LC.num)
                  IN  (IsGroup(hg[c]) /\ code # ND /\ code[1] \notin DOMAIN dictA)
                          => gdb[call.out_CN][c] = I(0)

(***************************************************************************)
(* eventRunoff                                                             *)
(***************************************************************************)
Sqr(x) == Mul(x, x)

\* Line 563 without the guard on a zero curve number.
retentionCellUnguarded(cn) == Sub(Div(I(1000), cn), I(10))

\* Line 563: maximum retention from the curve number, in one cell.
retentionCell(cn) == Con(EqC(cn, I(0)), I(1000), Sub(Div(I(1000), cn), I(10)))

\* Line 571 without the initial abstraction test.
runoffDepthCellNoAbstraction(cn, rain, retention) ==
    Con(EqC(cn, I(0)), I(0),
        Div(Sqr(Sub(rain, Mul(Q(2, 10), retention))),
            Add(rain, Mul(Q(8, 10), retention))))

\* Line 571: runoff depth in one cell.
runoffDepthCell(cn, rain, retention) ==
    Con(EqC(cn, I(0)), I(0),
        Con(GtC(Sub(rain, Mul(Q(2, 10), retention)), I(0)),
            Div(Sqr(Sub(rain, Mul(Q(2, 10), retention))),
                Add(rain, Mul(Q(8, 10), retention))),
            I(0)))

\* Lines 579-580: runoff volume in one cell.
runoffVolumeCell(cellArea, depth) == Mul(Mul(Q(254, 100000), I(cellArea)), depth)

\* Lines 554-557: rainfall in inches, in one cell.
rainCell(in_Rain, convFact, c) ==
    IF convFact # I(1) THEN Mul(convFact, CellOf(in_Rain, c)) ELSE CellOf(in_Rain, c)

RunoffOut == [bare |-> [Retention |-> "Retention_bare",
                        runoffDepth |-> "runoffDepth_bare",
                        runoffVol |-> "runoffVol_bare"]]

CNSamples == {I(0), I(80), I(100), ND}
RainSamples == {I(0), I(2), I(250), ND}

InitRunoff ==
    /\ pc = "idle"
    /\ call = [fn |-> "none"]
    /\ outcome = "none"
    /\ ret = <<>>
    /\ printed = <<>>
    /\ \E r \in RastersOver(CNSamples), p \in RastersOver(RainSamples) :
          gdb = ("in_Raster" :> r) @@ ("in_Rain" :> p)
    /\ vat = <<>>
    /\ env = EnvDefault

eventRunoff(in_Raster, in_Rain, nameTag, cellArea, inputType, convFact, vol) ==
    /\ pc = "idle"
    /\ pc' = "done"
    /\ call' = [fn |-> "eventRunoff", in_Raster |-> in_Raster, in_Rain |-> in_Rain,
                nameTag |-> nameTag, cellArea |-> cellArea, inputType |-> inputType,
                convFact |-> convFact, vol |-> vol]
    /\ env' = [env EXCEPT !.overwriteOutput = TRUE]
    /\ UNCHANGED <<ret, printed, vat>>
    /\ IF inputType = "CN"
       THEN LET cn == gdb[in_Raster]
                retention == [c \in Cells |-> retentionCell(cn[c])]
                runoffDepth == [c \in Cells |->
                    runoffDepthCell(cn[c], rainCell(in_Rain, convFact, c), retention[c])]
                runoffVolume == [c \in Cells |-> runoffVolumeCell(cellArea, runoffDepth[c])]
                g1 == (RunoffOut[nameTag].Retention :> retention) @@ gdb
                g2 == (RunoffOut[nameTag].runoffDepth :> runoffDepth) @@ g1
                g3 == (RunoffOut[nameTag].runoffVol :> runoffVolume) @@ g2
            IN  /\ gdb' = IF vol = 1 THEN g3 ELSE g2
                /\ outcome' = "ok"
       ELSE \* retention = in_Raster; line 571 then reads the local name curvNum,
            \* which is bound only in the CN branch.
            /\ outcome' = "UnboundLocalError"
            /\ gdb' = gdb

\* The values of inputType the runs use: the two options and a string that
\* is neither.
RunoffInputTypes == {"CN", "RET", "RETENTION"}

CallEventRunoff ==
    \E in_Rain \in {Path("in_Rain"), Num(I(2))}, inputType \in RunoffInputTypes,
       convFact \in {I(1), Q(1, 4)}, vol \in {0, 1} :
        eventRunoff("in_Raster", in_Rain, "bare", 1000000, inputType, convFact, vol)

NextRunoff == CallEventRunoff

SpecRunoff == InitRunoff /\ [][NextRunoff]_vars

RunoffDone == pc = "done" /\ call.fn = "eventRunoff"
RunoffCN == RunoffDone /\ call.inputType = "CN"

(***************************************************************************)
(* C2: in curve-number mode the call completes and, in every data cell,    *)
(* the saved retention is exactly 1000 where the curve number is 0 and     *)
(* 1000/CN - 10 elsewhere (CN 80 gives 5/2, CN 100 gives 0): a curve       *)
(* number of 0 never makes the division fail or leaves the cell empty.     *)
(***************************************************************************)
C2_Retention ==
    RunoffCN =>
        /\ outcome = "ok"
        /\ \A c \in Cells :
              LET cn == gdb[call.in_Raster][c]
                  r == gdb[RunoffOut[call.nameTag].Retention][c]
              IN  /\ cn = ND => r = ND
                  /\ cn = I(0) => r = I(1000)
                  /\ (cn # ND /\ cn # I(0)) => r = Q(1000 - 10 * cn[1], cn[1])
                  /\ cn = I(80) => r = Q(5, 2)
                  /\ cn = I(100) => r = I(0)

C2_Witness ==
    /\ RunoffCN
    /\ outcome = "ok"
    /\ \E c \in Cells : gdb[call.in_Raster][c] = I(0)
                        /\ gdb["Retention_bare"][c] = I(1000)
    /\ \E c \in Cells : gdb[call.in_Raster][c] = I(80)
                        /\ gdb["Retention_bare"][c] = Q(5, 2)

(***************************************************************************)
(* C3: in every cell with a curve number and rainfall, the saved runoff    *)
(* depth is exactly 0 when the curve number is 0 or when rain does not     *)
(* exceed 0.2 * retention, and (rain - 0.2 S)^2 / (rain + 0.8 S) otherwise,*)
(* rain being the input rainfall times the conversion factor (CN 100 with  *)
(* 2 inches of rain gives depth 2).                                        *)
(***************************************************************************)
ClaimedRetention(cn) == IF cn = I(0) THEN I(1000) ELSE Q(1000 - 10 * cn[1], cn[1])

ClaimedDepth(cn, rain) ==
    LET S == ClaimedRetention(cn)
        ia == Q(2 * S[1], 10 * S[2])
    IN  IF cn = I(0) \/ Leq(rain, ia) THEN I(0)
        ELSE Div(Mul(Sub(rain, ia), Sub(rain, ia)), Add(rain, Q(8 * S[1], 10 * S[2])))

C3_RunoffDepth ==
    RunoffCN =>
        /\ outcome = "ok"
        /\ \A c \in Cells :
              LET cn == gdb[call.in_Raster][c]
                  raw == CellOf(call.in_Rain, c)
                  d == gdb[RunoffOut[call.nameTag].runoffDepth][c]
              IN  /\ (cn = I(0) /\ raw # ND) => d = I(0)
                  /\ (cn # ND /\ raw # ND) =>
                        d = ClaimedDepth(cn, Q(raw[1] * call.convFact[1],
                                               raw[2] * call.convFact[2]))
                  /\ (cn = I(100) /\ raw = I(2) /\ call.convFact = I(1)) => d = I(2)

C3_Witness ==
    /\ RunoffCN
    /\ outcome = "ok"
    /\ call.convFact = Q(1, 4)
    /\ \E c \in Cells : /\ gdb[call.in_Raster][c] = I(0)
                        /\ CellOf(call.in_Rain, c) = I(250)
                        /\ gdb["runoffDepth_bare"][c] = I(0)
    /\ \E c \in Cells : /\ gdb[call.in_Raster][c] = I(100)
                        /\ CellOf(call.in_Rain, c) = I(2)
                        /\ gdb["runoffDepth_bare"][c] = Q(1, 2)

(***************************************************************************)
(* C4 (as claimed): called with inputType RET, eventRunoff takes the input *)
(* raster as the retention, completes, and saves the runoff depth computed *)
(* by the same depth formula.                                              *)
(***************************************************************************)
C4_RetentionMode ==
    (RunoffDone /\ call.inputType = "RET") =>
        /\ outcome = "ok"
        /\ RunoffOut[call.nameTag].runoffDepth \in DOMAIN gdb
        /\ \A c \in Cells :
              LET S == gdb[call.in_Raster][c]
                  rain == rainCell(call.in_Rain, call.convFact, c)
              IN  (S # ND /\ rain # ND /\ Less(Mul(Q(2, 10), S), rain)) =>
                      gdb[RunoffOut[call.nameTag].runoffDepth][c] =
                          Div(Sqr(Sub(rain, Mul(Q(2, 10), S))),
                              Add(rain, Mul(Q(8, 10), S)))

(***************************************************************************)
(* SlopeTrans                                                              *)
(*                                                                         *)
(* The trigonometric functions are tabulated to six decimals on the slope  *)
(* values the runs use.  An elevation raster is represented by the percent *)
(* rise the Slope tool derives from it with a z-factor of 1.               *)
(***************************************************************************)
SlopeSamples ==
    {I(0), Q(174, 100), Q(175, 100), Q(899, 100), I(9), I(30), I(45),
     Q(5773, 100), Q(5774, 100)}

\* 10^6 * sin(atan(x / 100))
SinATanE6 ==
    (<<0, 1>> :> 0) @@ (<<87, 50>> :> 17397) @@ (<<7, 4>> :> 17497) @@
    (<<899, 100>> :> 89539) @@ (<<9, 1>> :> 89638) @@ (<<30, 1>> :> 287348) @@
    (<<45, 1>> :> 410365) @@ (<<5773, 100>> :> 499967) @@
    (<<2887, 50>> :> 500032)

\* 10^6 * sin(x * pi / 180)
SinDegE6 ==
    (<<0, 1>> :> 0) @@ (<<87, 50>> :> 30364) @@ (<<7, 4>> :> 30539) @@
    (<<899, 100>> :> 156262) @@ (<<9, 1>> :> 156434) @@ (<<30, 1>> :> 500000) @@
    (<<45, 1>> :> 707107) @@ (<<5773, 100>> :> 845542) @@
    (<<2887, 50>> :> 845635)

\* Sin(ATan(in_Slope/100)) and Sin(in_Slope * math.pi/180.0) in one cell.
SinATan(x) == IF x = ND THEN ND ELSE Q(SinATanE6[x], 1000000)
SinDeg(x) == IF x = ND THEN ND ELSE Q(SinDegE6[x], 1000000)

\* 100*math.tan(deg*math.pi/180) for the two thresholds, to four decimals.
PercentOfDegrees(deg) == IF deg = 1 THEN Q(17455, 10000) ELSE Q(577350, 10000)

\* math.atan(9.0/100)*180/math.pi, to four decimals.
inflectDegrees == Q(51428, 10000)

\* Lines 268-279.
slopeTypeOf(inputType) ==
    IF inputType \in {"DEG", "DEGREES"} THEN "DEGREES"
    ELSE IF inputType \in {"PERC", "PERCENT"} THEN "PERCENT"
    ELSE IF inputType \in {"ELEV", "ELEVATION"} THEN "PERCENT"
    ELSE "invalid"

\* Lines 281-289 with the final else missing.
ValidTransTypeAny(transType) == TRUE

\* Lines 281-289.
ValidTransType(transType) == transType \in {"TRUNCLIN", "TRUNCSIN", "RUSLE"}

\* Slope(in_Raster, "PERCENT_RISE", zfactor)
SlopeTool(elev, zfactor) == [c \in Cells |-> Mul(zfactor, elev[c])]

\* Lines 313 and 316.
truncLinCell(x, minSlope, maxSlope) ==
    Con(LeC(x, minSlope), I(0),
        Con(GtC(x, maxSlope), I(100),
            Div(Mul(I(100), Sub(x, minSlope)), Sub(maxSlope, minSlope))))

\* Lines 322 and 325, given the sine of the angle.
truncSinCell(sine) == MinC(I(100), IntC(Add(Q(1, 2), Mul(I(200), sine))))

\* Lines 332 and 336 with <= in place of <.
rusleCellLeq(x, inflect, sine) ==
    Con(LeC(x, inflect), Add(Mul(Q(108, 10), sine), Q(3, 100)),
                         Sub(Mul(Q(168, 10), sine), Q(50, 100)))

\* Lines 332 and 336, given the sine of the angle.
rusleCell(x, inflect, sine) ==
    Con(LtC(x, inflect), Add(Mul(Q(108, 10), sine), Q(3, 100)),
                         Sub(Mul(Q(168, 10), sine), Q(50, 100)))

\* Lines 305-336: the transformed slope in one cell.
transCell(slopeType, transType, x) ==
    IF transType = "TRUNCLIN"
    THEN IF slopeType = "PERCENT"
         THEN truncLinCell(x, PercentOfDegrees(1), PercentOfDegrees(30))
         ELSE truncLinCell(x, I(1), I(30))
    ELSE IF transType = "TRUNCSIN"
    THEN IF slopeType = "PERCENT"
         THEN truncSinCell(SinATan(x))
         ELSE truncSinCell(SinDeg(x))
    ELSE IF slopeType = "PERCENT"
         THEN rusleCell(x, I(9), SinATan(x))
         ELSE rusleCell(x, inflectDegrees, SinDeg(x))

InitSlope ==
    /\ pc = "idle"
    /\ call = [fn |-> "none"]
    /\ outcome = "none"
    /\ ret = <<>>
    /\ printed = <<>>
    /\ \E r \in RastersOver(SlopeSamples \cup {ND}) : gdb = ("in_Raster" :> r)
    /\ vat = <<>>
    /\ env = EnvDefault

SlopeTrans(in_Raster, inputType, transType, out_Trans, out_Slope, zfactor) ==
    /\ pc = "idle"
    /\ pc' = "done"
    /\ call' = [fn |-> "SlopeTrans", in_Raster |-> in_Raster, inputType |-> inputType,
                transType |-> transType, out_Trans |-> out_Trans,
                out_Slope |-> out_Slope, zfactor |-> zfactor]
    /\ UNCHANGED <<ret, vat>>
    /\ IF slopeTypeOf(inputType) = "invalid"
       THEN /\ printed' = Append(printed, "Input type specification is invalid. Aborting.")
            /\ outcome' = "SystemExit"
            /\ UNCHANGED <<gdb, env>>
       ELSE IF ~ValidTransType(transType)
       THEN /\ printed' = Append(printed, "Transformation specification is invalid. Aborting.")
            /\ outcome' = "SystemExit"
            /\ UNCHANGED <<gdb, env>>
       ELSE /\ printed' = printed
            /\ env' = [env EXCEPT !.overwriteOutput = TRUE]
            /\ IF inputType \in {"ELEV", "ELEVATION"}
               THEN LET in_Slope == SlopeTool(gdb[in_Raster], zfactor)
                        outRaster == [c \in Cells |->
                            transCell(slopeTypeOf(inputType), transType, in_Slope[c])]
                    IN  /\ gdb' = (out_Trans :> outRaster) @@ (out_Slope :> in_Slope) @@ gdb
                        /\ outcome' = "ok"
               ELSE \* line 303 reads in_Slope, a local name not yet bound
                    /\ outcome' = "UnboundLocalError"
                    /\ gdb' = gdb

InputTypes == {"DEG", "DEGREES", "PERC", "PERCENT", "ELEV", "ELEVATION", "SLOPE"}
TransTypes == {"TRUNCLIN", "TRUNCSIN", "RUSLE", "LINEAR"}

CallSlopeTrans ==
    \E inputType \in InputTypes, transType \in TransTypes :
        SlopeTrans("in_Raster", inputType, transType, "out_Trans", "out_Slope", I(1))

NextSlope == CallSlopeTrans

SpecSlope == InitSlope /\ [][NextSlope]_vars

SlopeDone == pc = "done" /\ call.fn = "SlopeTrans"

(***************************************************************************)
(* C5: a call of SlopeTrans with an inputType outside DEG, DEGREES, PERC,  *)
(* PERCENT, ELEV, ELEVATION or a transType outside TRUNCLIN, TRUNCSIN,     *)
(* RUSLE ends with the abort message and an exit, and changes neither the  *)
(* rasters on disk (no slope derived, nothing saved) nor arcpy.env.        *)
(***************************************************************************)
SlopeRejected(c) ==
    /\ c.fn = "SlopeTrans"
    /\ \/ c.inputType \notin {"DEG", "DEGREES", "PERC", "PERCENT", "ELEV", "ELEVATION"}
       \/ c.transType \notin {"TRUNCLIN", "TRUNCSIN", "RUSLE"}

C5_RejectBeforeComputation ==
    [][(pc = "idle" /\ pc' = "done" /\ SlopeRejected(call')) =>
          /\ outcome' = "SystemExit"
          /\ Len(printed') = Len(printed) + 1
          /\ gdb' = gdb
          /\ env' = env
          /\ vat' = vat]_vars

C5_Witness ==
    /\ SlopeDone
    /\ call.inputType = "ELEV"
    /\ call.transType = "LINEAR"
    /\ outcome = "SystemExit"
    /\ printed = <<"Transformation specification is invalid. Aborting.">>
    /\ DOMAIN gdb = {"in_Raster"}
    /\ env = EnvDefault

SlopeValidArgs ==
    /\ SlopeDone
    /\ call.inputType \in {"DEG", "DEGREES", "PERC", "PERCENT", "ELEV", "ELEVATION"}

\* The slope a call works on: the input raster, or the slope derived from elevation.
SlopeInput(c) ==
    IF call.inputType \in {"ELEV", "ELEVATION"} THEN gdb[call.out_Slope][c]
    ELSE gdb[call.in_Raster][c]

InDegrees == call.inputType \in {"DEG", "DEGREES"}

(***************************************************************************)
(* C6 (as claimed): with transType TRUNCLIN and a slope raster in degrees  *)
(* or percent, or an elevation raster, SlopeTrans saves a score that is 0  *)
(* where slope <= 1 degree, 100 where slope >= 30 degrees and the linear   *)
(* interpolation in between, the thresholds being 100*tan(theta) for       *)
(* slope in percent.                                                       *)
(***************************************************************************)
C6_TruncLin ==
    (SlopeValidArgs /\ call.transType = "TRUNCLIN") =>
        /\ outcome = "ok"
        /\ \A c \in Cells :
              LET x == SlopeInput(c)
                  lo == IF InDegrees THEN I(1) ELSE Q(17455, 10000)
                  hi == IF InDegrees THEN I(30) ELSE Q(577350, 10000)
              IN  x # ND =>
                    gdb[call.out_Trans][c] =
                        IF Leq(x, lo) THEN I(0)
                        ELSE IF Leq(hi, x) THEN I(100)
                        ELSE Div(Mul(I(100), Sub(x, lo)), Sub(hi, lo))

(***************************************************************************)
(* C7 (as claimed): with transType TRUNCSIN every cell of the saved score  *)
(* is min(100, round(200*sin(theta))), theta = atan(slope/100) for percent *)
(* input and the angle itself for degree input; it never exceeds 100 and   *)
(* is 100 from 30 degrees on.                                              *)
(***************************************************************************)
Round(x) == I((2 * x[1] + x[2]) \div (2 * x[2]))

C7_TruncSin ==
    (SlopeValidArgs /\ call.transType = "TRUNCSIN") =>
        /\ outcome = "ok"
        /\ \A c \in Cells :
              LET x == SlopeInput(c)
                  sine == IF InDegrees THEN SinDeg(x) ELSE SinATan(x)
                  r == Round(Mul(I(200), sine))
                  score == gdb[call.out_Trans][c]
              IN  x # ND =>
                    /\ score = IF Less(I(100), r) THEN I(100) ELSE r
                    /\ Leq(score, I(100))
                    /\ Leq(Q(1, 2), sine) => score = I(100)

(***************************************************************************)
(* C8 (as claimed): the RUSLE S-factor is continuous at the inflection     *)
(* point: where the slope is exactly 9 percent the saved value (the        *)
(* high-slope branch) agrees with the low-slope branch 10.8*sin(theta) +   *)
(* 0.03 within a tolerance of 10^-6.                                       *)
(***************************************************************************)
LowBranch(sine) == Add(Mul(Q(108, 10), sine), Q(3, 100))
HighBranch(sine) == Sub(Mul(Q(168, 10), sine), Q(1, 2))

RusleDone == SlopeDone /\ call.transType = "RUSLE" /\ outcome = "ok"

None == <<>>

RECURSIVE SqrtIter(_, _)
SqrtIter(n, x) ==
    LET y == (x + n \div x) \div 2
    IN  IF y >= x THEN x ELSE SqrtIter(n, y)

\* The integer square root of n >= 0.
ISqrt(n) == IF n < 2 THEN n ELSE SqrtIter(n, n)

SqrtQ(v) == Q(ISqrt((v[1] * 10000) \div v[2]), 100)

DataCells(r) == {c \in Cells : r[c] # ND}

RECURSIVE SumOver(_, _)
SumOver(r, S) ==
    IF S = {} THEN I(0)
    ELSE LET c == CHOOSE c \in S : TRUE
         IN  Add(r[c], SumOver(r, S \ {c}))

minimum(r) ==
    IF DataCells(r) = {} THEN None
    ELSE r[CHOOSE c \in DataCells(r) : \A k \in DataCells(r) : Leq(r[c], r[k])]

maximum(r) ==
    IF DataCells(r) = {} THEN None
    ELSE r[CHOOSE c \in DataCells(r) : \A k \in DataCells(r) : Leq(r[k], r[c])]

mean(r) ==
    IF DataCells(r) = {} THEN None
    ELSE Div(SumOver(r, DataCells(r)), I(Cardinality(DataCells(r))))

standardDeviation(r) ==
    IF DataCells(r) = {} THEN None
    ELSE LET dev2 == [c \in Cells |-> Sqr(Sub(r[c], mean(r)))]
         IN  SqrtQ(Div(SumOver(dev2, DataCells(r)), I(Cardinality(DataCells(r)))))

\* Python's max and min of two numbers: the first argument wins a tie.
PyMax(a, b) == IF Less(a, b) THEN b ELSE a
PyMin(a, b) == IF Less(b, a) THEN b ELSE a

\* Line 33 falling back to the whole raster when the mask selects no data cell.
selectCellsOrAll(raster, mask) ==
    IF DataCells([c \in Cells |-> ConT(mask[c], raster[c])]) = {} THEN raster
    ELSE [c \in Cells |-> ConT(mask[c], raster[c])]

\* Line 33: Con(Raster(in_Mask), Raster(in_Raster)).
selectCells(raster, mask) == [c \in Cells |-> ConT(mask[c], raster[c])]

\* Lines 41-42 with max and min exchanged.
truncValsSwapped(r, numSD) ==
    <<PyMin(minimum(r), Sub(mean(r), Mul(numSD, standardDeviation(r)))),
      PyMax(maximum(r), Add(mean(r), Mul(numSD, standardDeviation(r))))>>

\* Lines 37-44: the cutoff values of a raster that has data cells.
truncVals(r, numSD) ==
    <<PyMax(minimum(r), Sub(mean(r), Mul(numSD, standardDeviation(r)))),
      PyMin(maximum(r), Add(mean(r), Mul(numSD, standardDeviation(r))))>>

ValueSamples == {I(-4), I(0), I(10), ND}
MaskSamples == {I(1), I(0), ND}

InitTrunc ==
    /\ pc = "idle"
    /\ call = [fn |-> "none"]
    /\ outcome = "none"
    /\ ret = <<>>
    /\ printed = <<>>
    /\ \E r \in RastersOver(ValueSamples), k \in RastersOver(MaskSamples) :
          gdb = ("in_Raster" :> r) @@ ("in_Mask" :> k)
    /\ vat = <<>>
    /\ env = EnvDefault

getTruncVals(in_Raster, in_Mask, numSD) ==
    /\ pc = "idle"
    /\ pc' = "done"
    /\ call' = [fn |-> "getTruncVals", in_Raster |-> in_Raster, in_Mask |-> in_Mask,
                numSD |-> numSD]
    /\ UNCHANGED <<printed, gdb, vat, env>>
    /\ LET r == IF in_Mask \in DOMAIN gdb
                THEN selectCells(gdb[in_Raster], gdb[in_Mask])
                ELSE gdb[in_Raster]   \* Raster("NONE") raises: the except branch
       IN  IF minimum(r) = None
           THEN \* arithmetic on the None statistics, line 41
                /\ outcome' = "TypeError"
                /\ ret' = <<>>
           ELSE /\ outcome' = "ok"
                /\ ret' = truncVals(r, numSD)

CallGetTruncVals ==
    \E in_Mask \in {"NONE", "in_Mask"}, numSD \in {I(0), Q(1, 2), I(1), I(3)} :
        getTruncVals("in_Raster", in_Mask, numSD)

NextTrunc == CallGetTruncVals

SpecTrunc == InitTrunc /\ [][NextTrunc]_vars

TruncDone == pc = "done" /\ call.fn = "getTruncVals"

\* The cells the call's statistics are about: the data cells of the raster
\* where the mask is set, all its data cells when there is no mask.
Selected ==
    {c \in Cells :
        /\ gdb[call.in_Raster][c] # ND
        /\ call.in_Mask # "NONE" =>
              (gdb[call.in_Mask][c] # ND /\ gdb[call.in_Mask][c] # I(0))}

(***************************************************************************)
(* C9: the pair getTruncVals returns is (max(gridMin, mean - numSD*sd),    *)
(* min(gridMax, mean + numSD*sd)) over the cells selected by the mask (all *)
(* data cells without a mask) and satisfies                                *)
(* gridMin <= TruncMin <= TruncMax <= gridMax.                             *)
(***************************************************************************)
C9_TruncWithinGrid ==
    (TruncDone /\ outcome = "ok") =>
        \E lo \in Selected, hi \in Selected :
            LET x == gdb[call.in_Raster]
                n == I(Cardinality(Selected))
                mu == Div(SumOver(x, Selected), n)
                sd == SqrtQ(Div(SumOver([c \in Cells |-> Sqr(Sub(x[c], mu))], Selected), n))
                k == Mul(call.numSD, sd)
            IN  /\ \A c \in Selected : Leq(x[lo], x[c]) /\ Leq(x[c], x[hi])
                /\ Leq(x[lo], ret[1])
                /\ Leq(ret[1], ret[2])
                /\ Leq(ret[2], x[hi])
                /\ ret[1] = IF Less(x[lo], Sub(mu, k)) THEN Sub(mu, k) ELSE x[lo]
                /\ ret[2] = IF Less(Add(mu, k), x[hi]) THEN Add(mu, k) ELSE x[hi]

C9_Witness ==
    /\ TruncDone
    /\ outcome = "ok"
    /\ call.in_Mask = "in_Mask"
    /\ call.numSD = Q(1, 2)
    /\ Cardinality(Selected) >= 2
    /\ \E c \in Selected : Less(gdb[call.in_Raster][c], ret[1])
    /\ \E c \in Selected : Less(ret[2], gdb[call.in_Raster][c])

TfLinear(min_, max_, lowerThreshold, valueBelowThreshold, upperThreshold, valueAboveThreshold) ==
    [lowerThreshold |-> lowerThreshold, valueBelowThreshold |-> valueBelowThreshold,
     upperThreshold |-> upperThreshold, valueAboveThreshold |-> valueAboveThreshold]

\* The rescale without the thresholds: the line through the two end points.
rescaleCellUnbounded(x, Fx, from_scale, to_scale) ==
    IF x = ND THEN ND
    ELSE IF Fx.lowerThreshold = Fx.upperThreshold THEN from_scale
    ELSE Add(from_scale,
             Mul(Sub(to_scale, from_scale),
                 Div(Sub(x, Fx.lowerThreshold),
                     Sub(Fx.upperThreshold, Fx.lowerThreshold))))

rescaleCell(x, Fx, from_scale, to_scale) ==
    IF x = ND THEN ND
    ELSE IF Less(x, Fx.lowerThreshold) THEN Fx.valueBelowThreshold
    ELSE IF Less(Fx.upperThreshold, x) THEN Fx.valueAboveThreshold
    ELSE IF Fx.lowerThreshold = Fx.upperThreshold THEN from_scale
    ELSE Add(from_scale,
             Mul(Sub(to_scale, from_scale),
                 Div(Sub(x, Fx.lowerThreshold),
                     Sub(Fx.upperThreshold, Fx.lowerThreshold))))

RescaleByFunction(in_raster, Fx, from_scale, to_scale) ==
    [c \in Cells |-> rescaleCell(in_raster[c], Fx, from_scale, to_scale)]

\* arcpy.env.mask: a tool's output has data only where the mask raster has.
maskedBy(r, maskName) ==
    IF maskName = "NONE" THEN r
    ELSE [c \in Cells |-> IF gdb[maskName][c] = ND THEN ND ELSE r[c]]

InMask(maskName, c) == maskName = "NONE" \/ gdb[maskName][c] # ND

\* The environment of a function that puts the caller's mask back.
envRestored(in_Mask) == env

\* The mask a function leaves in arcpy.env when it is given in_Mask.
envWithMask(in_Mask) == IF in_Mask # "NONE" THEN [env EXCEPT !.mask = in_Mask] ELSE env

\* What getTruncVals returns: the cutoff pair, or None when it raises.
getTruncValsRet(in_Raster, in_Mask, numSD) ==
    LET r == IF in_Mask \in DOMAIN gdb
             THEN selectCells(gdb[in_Raster], gdb[in_Mask])
             ELSE gdb[in_Raster]
    IN  IF minimum(r) = None THEN None ELSE truncVals(r, numSD)

(***************************************************************************)
(* calcSoilSensScore                                                       *)
(***************************************************************************)
defaultNumSD == I(3)

\* Lines 609-610 with the soil loss cutoffs used for both rasters.
soilSensTruncValsShared(in_SoilLoss, in_Runoff, in_Mask) ==
    <<getTruncValsRet(in_SoilLoss, in_Mask, defaultNumSD),
      getTruncValsRet(in_SoilLoss, in_Mask, defaultNumSD)>>

\* Lines 609-610: <<(slTruncMin, slTruncMax), (roTruncMin, roTruncMax)>>.
soilSensTruncVals(in_SoilLoss, in_Runoff, in_Mask) ==
    <<getTruncValsRet(in_SoilLoss, in_Mask, defaultNumSD),
      getTruncValsRet(in_Runoff, in_Mask, defaultNumSD)>>

SoilLossSamples == {I(0), I(10), ND}
RunoffSamples == {I(2), I(3), ND}

InitSoilSens ==
    /\ pc = "idle"
    /\ call = [fn |-> "none"]
    /\ outcome = "none"
    /\ ret = <<>>
    /\ printed = <<>>
    /\ \E sl \in RastersOver(SoilLossSamples), ro \in RastersOver(RunoffSamples),
          k \in RastersOver(MaskSamples) :
          gdb = ("soilLoss" :> sl) @@ ("runoff" :> ro) @@ ("MaskNoWater" :> k)
    /\ vat = <<>>
    /\ \E ambient \in {"NONE", "MaskNoWater"} : env = [EnvDefault EXCEPT !.mask = ambient]

calcSoilSensScore(in_SoilLoss, in_Runoff, out_GDB, in_Mask) ==
    /\ pc = "idle"
    /\ pc' = "done"
    /\ call' = [fn |-> "calcSoilSensScore", in_SoilLoss |-> in_SoilLoss,
                in_Runoff |-> in_Runoff, out_GDB |-> out_GDB, in_Mask |-> in_Mask]
    /\ UNCHANGED <<printed, vat, ret>>
    /\ env' = envWithMask(in_Mask)
    /\ \E tv \in {soilSensTruncVals(in_SoilLoss, in_Runoff, in_Mask)} :
          IF tv[1] = None \/ tv[2] = None
          THEN \* getTruncVals raised (line 609 or 610): nothing is saved
               /\ outcome' = "TypeError"
               /\ gdb' = gdb
          ELSE \E slFx \in {TfLinear("", "", tv[1][1], I(1), tv[1][2], I(100))},
                  roFx \in {TfLinear("", "", tv[2][1], I(1), tv[2][2], I(100))} :
               \E slScore \in {maskedBy(RescaleByFunction(gdb[in_SoilLoss], slFx, I(1), I(100)),
                                        envWithMask(in_Mask).mask)},
                  roScore \in {maskedBy(RescaleByFunction(gdb[in_Runoff], roFx, I(1), I(100)),
                                        envWithMask(in_Mask).mask)} :
                  /\ outcome' = "ok"
                  /\ gdb' = ("soilLoss_Score" :> slScore) @@ ("runoff_Score" :> roScore)
                            @@ ("soilSens_Score" :>
                                   [c \in Cells |-> Div(Add(slScore[c], roScore[c]), I(2))])
                            @@ gdb

CallCalcSoilSensScore ==
    \E in_Mask \in {"NONE", "MaskNoWater"} :
        calcSoilSensScore("soilLoss", "runoff", "procGDB", in_Mask)

NextSoilSens == CallCalcSoilSensScore

SpecSoilSens == InitSoilSens /\ [][NextSoilSens]_vars

SoilSensDone == pc = "done" /\ call.fn = "calcSoilSensScore" /\ outcome = "ok"

\* The cells whose values set the cutoffs of raster x in the finished call.
SoilSensSelected(x) ==
    {c \in Cells :
        /\ gdb[x][c] # ND
        /\ call.in_Mask # "NONE" =>
              (gdb[call.in_Mask][c] # ND /\ gdb[call.in_Mask][c] # I(0))}

\* The score in [1, 100] of value v on the line from (lo, 1) to (hi, 100).
ClaimedScore(v, lo, hi) ==
    IF Leq(v, lo) THEN I(1)
    ELSE IF Leq(hi, v) THEN I(100)
    ELSE Add(I(1), Div(Mul(I(99), Sub(v, lo)), Sub(hi, lo)))

InScoreRange(v) == Leq(I(1), v) /\ Leq(v, I(100))

\* Raster x rescaled with cutoffs taken from the selected cells of x alone
\* (with at most three cells mean -/+ 3 sd lies outside [min, max]).
OwnScore(x, out) ==
    \E lo \in SoilSensSelected(x), hi \in SoilSensSelected(x) :
        /\ \A c \in SoilSensSelected(x) :
              Leq(gdb[x][lo], gdb[x][c]) /\ Leq(gdb[x][c], gdb[x][hi])
        /\ \A c \in Cells :
              IF gdb[x][c] = ND \/ ~InMask(env.mask, c) THEN gdb[out][c] = ND
              ELSE /\ gdb[out][c] = ClaimedScore(gdb[x][c], gdb[x][lo], gdb[x][hi])
                   /\ InScoreRange(gdb[out][c])

(***************************************************************************)
(* C11: calcSoilSensScore rescales soil loss and runoff each to [1,100]    *)
(* with cutoffs computed from its own raster only, and the sensitivity     *)
(* score of every cell is (soilLossScore + runoffScore)/2, within [1,100]. *)
(***************************************************************************)
C11_SoilSens ==
    SoilSensDone =>
        /\ OwnScore("soilLoss", "soilLoss_Score")
        /\ OwnScore("runoff", "runoff_Score")
        /\ \A c \in Cells :
              LET sl == gdb["soilLoss_Score"][c]
                  ro == gdb["runoff_Score"][c]
                  sens == gdb["soilSens_Score"][c]
              IN  IF sl = ND \/ ro = ND THEN sens = ND
                  ELSE /\ Add(sens, sens) = Add(sl, ro)
                       /\ InScoreRange(sens)

C11_Witness ==
    /\ SoilSensDone
    /\ call.in_Mask = "MaskNoWater"
    /\ \A c \in Cells : gdb["soilLoss"][c] # ND /\ gdb["runoff"][c] # ND
    /\ \E c \in Cells, k \in Cells :
          /\ gdb["soilLoss_Score"][c] = I(100)
          /\ gdb["runoff_Score"][c] = I(1)
          /\ gdb["soilSens_Score"][c] = Q(101, 2)
          /\ gdb["soilLoss_Score"][k] = I(1)
          /\ gdb["runoff_Score"][k] = I(100)

(***************************************************************************)
(* calcFlowScore                                                           *)
(***************************************************************************)
\* Line 706 with the discount given to the headwater cells instead.
discountCellHeadwater(hdwtrs, discount, flowScore) ==
    Con(EqC(hdwtrs, I(1)), Mul(discount, flowScore), flowScore)

\* Line 706: Con(Raster(in_Hdwtrs)==0, discount*flowScore, flowScore), one cell.
discountCell(hdwtrs, discount, flowScore) ==
    Con(EqC(hdwtrs, I(0)), Mul(discount, flowScore), flowScore)

FlowLengthSamples == {I(20), I(50), I(275), I(500), I(1000), ND}
HdwtrsSamples == {I(1), I(0), ND}
DiscountSamples == {Q(9, 10), Q(1, 2), I(1)}

InitFlow ==
    /\ pc = "idle"
    /\ call = [fn |-> "none"]
    /\ outcome = "none"
    /\ ret = <<>>
    /\ printed = <<>>
    /\ \E fl \in RastersOver(FlowLengthSamples), h \in RastersOver(HdwtrsSamples) :
          gdb = ("FlowLength" :> fl) @@ ("Hdwtrs" :> h)
    /\ vat = <<>>
    /\ \E ambient \in {"NONE", "Hdwtrs"} : env = [EnvDefault EXCEPT !.mask = ambient]

calcFlowScore(in_FlowLength, out_FlowScore, in_Hdwtrs, minDist, maxDist, discount) ==
    /\ pc = "idle"
    /\ pc' = "done"
    /\ call' = [fn |-> "calcFlowScore", in_FlowLength |-> in_FlowLength,
                out_FlowScore |-> out_FlowScore, in_Hdwtrs |-> in_Hdwtrs,
                minDist |-> minDist, maxDist |-> maxDist, discount |-> discount]
    /\ UNCHANGED <<printed, vat>>
    /\ env' = envWithMask(in_Hdwtrs)
    /\ outcome' = "ok"
    /\ \E Fx \in {TfLinear("", "", minDist, I(100), maxDist, I(1))} :
       \E flowScore \in {maskedBy(RescaleByFunction(gdb[in_FlowLength], Fx, I(100), I(1)),
                                  envWithMask(in_Hdwtrs).mask)} :
       \E finScore \in {IF in_Hdwtrs = "NONE" THEN flowScore
                        ELSE [c \in Cells |->
                                 discountCell(gdb[in_Hdwtrs][c], discount, flowScore[c])]} :
          /\ gdb' = Save(out_FlowScore, finScore)
          /\ ret' = finScore

CallCalcFlowScore ==
    \E in_Hdwtrs \in {"NONE"} \cup ({"Hdwtrs"} \cap DOMAIN gdb), discount \in DiscountSamples :
        calcFlowScore("FlowLength", "FlowScore", in_Hdwtrs, I(50), I(500), discount)

NextFlow == CallCalcFlowScore

SpecFlow == InitFlow /\ [][NextFlow]_vars

FlowDone == pc = "done" /\ call.fn = "calcFlowScore" /\ outcome = "ok"

\* The rescaled flow score: 100 up to minDist, 1 from maxDist on, linear between.
ClaimedFlowScore(d) ==
    IF Leq(d, call.minDist) THEN I(100)
    ELSE IF Leq(call.maxDist, d) THEN I(1)
    ELSE Sub(I(100), Div(Mul(I(99), Sub(d, call.minDist)), Sub(call.maxDist, call.minDist)))

\* The cells where the finished call computes a flow score.
FlowCells == {c \in Cells : gdb[call.in_FlowLength][c] # ND /\ InMask(env.mask, c)}

(***************************************************************************)
(* C12: with a headwater indicator the final flow score of a cell is       *)
(* discount times its rescaled flow score where the indicator is 0 and the *)
(* rescaled flow score where the indicator is 1; without an indicator      *)
(* every cell keeps its rescaled flow score.                               *)
(***************************************************************************)
C12_HeadwaterDiscount ==
    FlowDone =>
        \A c \in FlowCells :
            LET fs == ClaimedFlowScore(gdb[call.in_FlowLength][c])
                fin == gdb[call.out_FlowScore][c]
            IN  IF call.in_Hdwtrs = "NONE" THEN fin = fs
                ELSE /\ gdb[call.in_Hdwtrs][c] = I(0) => fin = Mul(call.discount, fs)
                     /\ gdb[call.in_Hdwtrs][c] = I(1) => fin = fs

C12_Witness ==
    /\ FlowDone
    /\ call.in_Hdwtrs = "Hdwtrs"
    /\ call.discount = Q(9, 10)
    /\ \E c \in Cells, k \in Cells :
          /\ gdb["FlowLength"][c] = I(20) /\ gdb["Hdwtrs"][c] = I(0)
          /\ gdb["FlowScore"][c] = I(90)
          /\ gdb["FlowLength"][k] = I(275) /\ gdb["Hdwtrs"][k] = I(1)
          /\ gdb["FlowScore"][k] = Q(101, 2)

(***************************************************************************)
(* C13 (as stated): every data cell of the final flow score lies in        *)
(* [1,100], is 100 at flow distance <= minDist and 1 at flow distance      *)
(* >= maxDist, for every discount in (0,1], with or without an indicator.  *)
(***************************************************************************)
C13_FlowScoreRange ==
    FlowDone =>
        \A c \in Cells :
            LET fin == gdb[call.out_FlowScore][c]
                d == gdb[call.in_FlowLength][c]
            IN  fin # ND =>
                   /\ InScoreRange(fin)
                   /\ Leq(d, call.minDist) => fin = I(100)
                   /\ Leq(call.maxDist, d) => fin = I(1)

(***************************************************************************)
(* C13 (amended): every data cell of the final flow score lies in          *)
(* [discount, 100].  Without an indicator and in headwater cells it lies   *)
(* in [1,100], 100 at flow distance <= minDist and 1 at >= maxDist; in     *)
(* non-headwater cells it lies in [discount, 100*discount], 100*discount   *)
(* at flow distance <= minDist and discount at >= maxDist.                 *)
(***************************************************************************)
C13_DiscountedRange ==
    FlowDone =>
        \A c \in Cells :
            LET fin == gdb[call.out_FlowScore][c]
                d == gdb[call.in_FlowLength][c]
                k == IF call.in_Hdwtrs # "NONE" /\ gdb[call.in_Hdwtrs][c] = I(0)
                     THEN call.discount ELSE I(1)
            IN  fin # ND =>
                   /\ Leq(call.discount, fin) /\ Leq(fin, I(100))
                   /\ Leq(k, fin) /\ Leq(fin, Mul(k, I(100)))
                   /\ Leq(d, call.minDist) => fin = Mul(k, I(100))
                   /\ Leq(call.maxDist, d) => fin = k

C13_Witness ==
    /\ FlowDone
    /\ call.in_Hdwtrs = "Hdwtrs"
    /\ call.discount = Q(9, 10)
    /\ \E c \in Cells, k \in Cells :
          /\ gdb["FlowLength"][c] = I(1000) /\ gdb["Hdwtrs"][c] = I(0)
          /\ gdb["FlowScore"][c] = Q(9, 10)
          /\ gdb["FlowLength"][k] = I(1000) /\ gdb["Hdwtrs"][k] = I(1)
          /\ gdb["FlowScore"][k] = I(1)

(***************************************************************************)
(* makeHdwtrsIndicator                                                     *)
(*                                                                         *)
(* The catchment feature class gives for every cell the NHDPlusID of the   *)
(* catchment polygon covering it (NoCatchment where there is none); the    *)
(* flowline table gives the StartFlag of every flowline by NHDPlusID; the  *)
(* boundary polygon is the set of cells it covers.                         *)
(***************************************************************************)
NoCatchment == 0
CatchIDs == {1, 2}

\* Lines 661-664: the catchments that intersect in_BoundPoly.
selectByLocation(catchments, boundPoly) ==
    {catchments[c] : c \in boundPoly} \ {NoCatchment}

\* Line 670, JoinField: the StartFlag of the flowline with the same NHDPlusID,
\* null for a catchment that no flowline matches.
joinField(flowLines, id) == IF id \in DOMAIN flowLines THEN flowLines[id] ELSE None

\* Line 672, PolyToRaster: the field value where a polygon covers the cell,
\* NoData where none does or where the field is null.
PolyToRaster(polyOfCell, fieldOfPoly, noPoly) ==
    [c \in Cells |-> IF polyOfCell[c] = noPoly THEN ND ELSE fieldOfPoly[polyOfCell[c]]]

InitHdwtrs ==
    /\ pc = "idle"
    /\ call = [fn |-> "none"]
    /\ outcome = "none"
    /\ ret = <<>>
    /\ printed = <<>>
    /\ \E catch \in [Cells -> CatchIDs \cup {NoCatchment}],
          S \in SUBSET CatchIDs,
          bound \in SUBSET Cells \ {{}},
          k \in RastersOver({I(1), ND}) :
          \E lines \in [S -> {I(0), I(1)}] :
              gdb = ("NHDPlusCatchment" :> catch) @@ ("NHDFlowline" :> lines)
                    @@ ("clpShp" :> bound) @@ ("MaskNoWater" :> k)
                    @@ ("FlowLength" :> [c \in Cells |-> I(20)])
    /\ vat = <<>>
    /\ env = EnvDefault

makeHdwtrsIndicator(in_FlowLines, in_Catchments, in_BoundPoly, in_Mask, out_Hdwtrs) ==
    /\ pc = "idle"
    /\ call.fn = "none"
    /\ pc' = "idle"
    /\ call' = [fn |-> "makeHdwtrsIndicator", in_FlowLines |-> in_FlowLines,
                in_Catchments |-> in_Catchments, in_BoundPoly |-> in_BoundPoly,
                in_Mask |-> in_Mask, out_Hdwtrs |-> out_Hdwtrs]
    /\ UNCHANGED <<printed, vat>>
    /\ env' = [env EXCEPT !.mask = in_Mask]
    /\ outcome' = "ok"
    /\ ret' = Path(out_Hdwtrs)
    /\ \E sel \in {selectByLocation(gdb[in_Catchments], gdb[in_BoundPoly])} :
       \E tmpCatch \in {[c \in Cells |-> IF gdb[in_Catchments][c] \in sel
                                         THEN gdb[in_Catchments][c] ELSE NoCatchment]},
          StartFlag \in {[id \in sel |-> joinField(gdb[in_FlowLines], id)]} :
          gdb' = (out_Hdwtrs :> maskedBy(PolyToRaster(tmpCatch, StartFlag, NoCatchment), in_Mask))
                 @@ ("tmpCatch" :> tmpCatch) @@ gdb

CallMakeHdwtrsIndicator ==
    makeHdwtrsIndicator("NHDFlowline", "NHDPlusCatchment", "clpShp", "MaskNoWater", "Hdwtrs")

NextHdwtrs == CallMakeHdwtrsIndicator \/ CallCalcFlowScore

SpecHdwtrs == InitHdwtrs /\ [][NextHdwtrs]_vars

HdwtrsMade == "Hdwtrs" \in DOMAIN gdb

\* The cells of the selected catchments inside the processing mask.
SelectedCatchmentCells ==
    {c \in Cells : /\ gdb["tmpCatch"][c] # NoCatchment
                   /\ gdb["MaskNoWater"][c] # ND}

(***************************************************************************)
(* C14: every cell of a selected catchment that has no matching flowline   *)
(* gets headwater indicator 0, not null: the indicator raster has no hole  *)
(* inside the selected catchments, and calcFlowScore run with it yields a  *)
(* score, not nodata, in those cells.                                      *)
(***************************************************************************)
C14_NoHoles ==
    HdwtrsMade =>
        \A c \in SelectedCatchmentCells :
            /\ gdb["Hdwtrs"][c] # ND
            /\ gdb["tmpCatch"][c] \notin DOMAIN gdb["NHDFlowline"] => gdb["Hdwtrs"][c] = I(0)
            /\ (FlowDone /\ call.in_Hdwtrs = "Hdwtrs") => gdb["FlowScore"][c] # ND

\* The hole: a selected catchment without a flowline is NoData in the indicator
\* and in the flow score computed with it.
C14_Hole ==
    /\ FlowDone
    /\ call.in_Hdwtrs = "Hdwtrs"
    /\ \E c \in SelectedCatchmentCells :
          /\ gdb["tmpCatch"][c] \notin DOMAIN gdb["NHDFlowline"]
          /\ gdb["Hdwtrs"][c] = ND
          /\ gdb["FlowScore"][c] = ND
    /\ \E c \in SelectedCatchmentCells : gdb["FlowScore"][c] = I(90)

(***************************************************************************)
(* CellStatistics(rasters, statistic, "DATA"): the statistic of the data   *)
(* values of a cell; NoData only where every raster is NoData.             *)
(***************************************************************************)
RECURSIVE SeqSum(_)
SeqSum(vals) == IF vals = <<>> THEN I(0) ELSE Add(Head(vals), SeqSum(Tail(vals)))

RECURSIVE SeqMax(_)
SeqMax(vals) ==
    IF Len(vals) = 1 THEN Head(vals)
    ELSE IF Less(SeqMax(Tail(vals)), Head(vals)) THEN Head(vals) ELSE SeqMax(Tail(vals))

IsData(v) == v # ND

\* The statistic when NoData in any raster makes the cell NoData ("NODATA").
cellStatisticNoData(vals, statistic) ==
    IF SelectSeq(vals, IsData) # vals THEN ND
    ELSE IF statistic = "MEAN" THEN Div(SeqSum(vals), I(Len(vals)))
    ELSE IF statistic = "MAXIMUM" THEN SeqMax(vals)
    ELSE SeqSum(vals)

cellStatistic(vals, statistic) ==
    IF SelectSeq(vals, IsData) = <<>> THEN ND
    ELSE IF statistic = "MEAN"
         THEN Div(SeqSum(SelectSeq(vals, IsData)), I(Len(SelectSeq(vals, IsData))))
    ELSE IF statistic = "MAXIMUM" THEN SeqMax(SelectSeq(vals, IsData))
    ELSE SeqSum(SelectSeq(vals, IsData))

CellStatistics(rasters, statistic) ==
    [c \in Cells |-> cellStatistic([i \in 1..Len(rasters) |-> rasters[i][c]], statistic)]

(***************************************************************************)
(* calcKarstScore                                                          *)
(*                                                                         *)
(* The cells lie in a row, one cell size apart; the karst polygons are the *)
(* set of cells they cover.                                                *)
(***************************************************************************)
cellSize == I(2550)

\* Line 806, EucDistance: the distance to the nearest source (data) cell.
EucDistance(in_source) ==
    [c \in Cells |->
        IF DataCells(in_source) = {} THEN ND
        ELSE Mul(cellSize,
                 I(CHOOSE d \in 0..NCells :
                      /\ \E k \in DataCells(in_source) : Abs(c - k) = d
                      /\ \A k \in DataCells(in_source) : Abs(c - k) >= d))]

KarstMaskSamples == {I(1), ND}
SinkDensSamples == {I(0), I(40), I(250), ND}

InitKarst ==
    /\ pc = "idle"
    /\ call = [fn |-> "none"]
    /\ outcome = "none"
    /\ ret = <<>>
    /\ printed = <<>>
    /\ \E karst \in SUBSET Cells \ {{}},
          pm \in RastersOver(KarstMaskSamples),
          cm \in RastersOver(KarstMaskSamples),
          dens \in RastersOver(SinkDensSamples) :
          gdb = ("KarstPolys" :> karst) @@ ("procMask" :> pm) @@ ("MaskNoWater" :> cm)
                @@ ("sinkDens" :> dens)
    /\ vat = <<>>
    /\ env = EnvDefault

calcKarstScore(in_KarstPolys, procMask, clipMask, out_GDB, in_SinkScore, minDist, maxDist) ==
    /\ pc = "idle"
    /\ pc' = "done"
    /\ call' = [fn |-> "calcKarstScore", in_KarstPolys |-> in_KarstPolys,
                procMask |-> procMask, clipMask |-> clipMask, out_GDB |-> out_GDB,
                in_SinkScore |-> in_SinkScore, minDist |-> minDist, maxDist |-> maxDist]
    /\ UNCHANGED <<printed, vat>>
    /\ env' = [env EXCEPT !.mask = clipMask]
    /\ outcome' = "ok"
    /\ \E karst_Raster \in {maskedBy([c \in Cells |-> IF c \in gdb[in_KarstPolys]
                                                      THEN I(c) ELSE ND], procMask)} :
       \E karst_eDist \in {maskedBy(EucDistance(karst_Raster), procMask)},
          Fx \in {TfLinear("", "", minDist, I(100), maxDist, I(1))} :
       \E edistScore \in {maskedBy(RescaleByFunction(karst_eDist, Fx, I(100), I(1)), clipMask)} :
          IF in_SinkScore # "NONE"
          THEN \E combinedScore \in
                     {maskedBy(CellStatistics(<<gdb[in_SinkScore], edistScore>>, "MEAN"),
                               clipMask)} :
                  /\ gdb' = ("karst_Raster" :> karst_Raster) @@ ("karst_eDist" :> karst_eDist)
                            @@ ("karst_distScore" :> edistScore)
                            @@ ("KarstScore" :> combinedScore) @@ gdb
                  /\ ret' = combinedScore
          ELSE /\ gdb' = ("karst_Raster" :> karst_Raster) @@ ("karst_eDist" :> karst_eDist)
                         @@ ("KarstScore" :> edistScore) @@ gdb
               /\ ret' = edistScore

\* Workflow line 226, and the call without a sinkhole raster.
CallCalcKarstScore ==
    \E in_SinkScore \in {"sinkDens", "NONE"} :
        calcKarstScore("KarstPolys", "procMask", "MaskNoWater", "procGDB", in_SinkScore,
                       I(100), I(5000))

NextKarst == CallCalcKarstScore

SpecKarst == InitKarst /\ [][NextKarst]_vars

KarstDone == pc = "done" /\ call.fn = "calcKarstScore" /\ outcome = "ok"

\* The distance score: 100 up to minDist, 1 from maxDist on, linear between.
ClaimedDistScore(d) ==
    IF Leq(d, call.minDist) THEN I(100)
    ELSE IF Leq(call.maxDist, d) THEN I(1)
    ELSE Sub(I(100), Div(Mul(I(99), Sub(d, call.minDist)), Sub(call.maxDist, call.minDist)))

(***************************************************************************)
(* C15: with the sinkhole raster the workflow passes, the final karst      *)
(* score of every cell is the mean of the distance score and a density     *)
(* score in [1,100], hence within [1,100]; without one ("NONE") it is the  *)
(* distance score alone.                                                   *)
(***************************************************************************)
C15_KarstMean ==
    KarstDone =>
        \A c \in Cells :
            LET fin == gdb["KarstScore"][c]
                dist == ClaimedDistScore(gdb["karst_eDist"][c])
            IN  fin # ND =>
                   IF call.in_SinkScore = "NONE" THEN fin = dist
                   ELSE /\ InScoreRange(fin)
                        /\ gdb[call.in_SinkScore][c] # ND =>
                              \* fin = (dist + densScore)/2 with densScore in [1,100]
                              InScoreRange(Sub(Add(fin, fin), dist))

\* The raw density averaged with the distance score: (250 + 100)/2 = 175.
C15_RawDensityAveraged ==
    /\ KarstDone
    /\ call.in_SinkScore = "sinkDens"
    /\ \E c \in Cells :
          /\ gdb["sinkDens"][c] = I(250)
          /\ gdb["karst_distScore"][c] = I(100)
          /\ gdb["KarstScore"][c] = I(175)

(***************************************************************************)
(* calcPositionScore                                                       *)
(***************************************************************************)
positionStatisticMean == "MEAN"

\* Line 842: the statistic of the two scores.
positionStatistic == "MAXIMUM"

ScoreSamples == {I(1), I(40), I(100), ND}
AmbientMaskSamples == {I(1), ND}

InitPosition ==
    /\ pc = "idle"
    /\ call = [fn |-> "none"]
    /\ outcome = "none"
    /\ ret = <<>>
    /\ printed = <<>>
    /\ \E fs \in RastersOver(ScoreSamples), ks \in RastersOver(ScoreSamples),
          k \in RastersOver(AmbientMaskSamples) :
          gdb = ("FlowScore" :> fs) @@ ("KarstScore" :> ks) @@ ("MaskNoWater" :> k)
    /\ vat = <<>>
    /\ \E ambient \in {"NONE", "MaskNoWater"} : env = [EnvDefault EXCEPT !.mask = ambient]

calcPositionScore(in_FlowScore, in_KarstScore, out_PositionScore) ==
    /\ pc = "idle"
    /\ pc' = "done"
    /\ call' = [fn |-> "calcPositionScore", in_FlowScore |-> in_FlowScore,
                in_KarstScore |-> in_KarstScore, out_PositionScore |-> out_PositionScore]
    /\ UNCHANGED <<printed, vat, env>>
    /\ outcome' = "ok"
    /\ \E score \in {maskedBy(CellStatistics(<<gdb[in_FlowScore], gdb[in_KarstScore]>>,
                                             positionStatistic), env.mask)} :
          /\ gdb' = Save(out_PositionScore, score)
          /\ ret' = score

CallCalcPositionScore == calcPositionScore("FlowScore", "KarstScore", "PositionScore")

NextPosition == CallCalcPositionScore

SpecPosition == InitPosition /\ [][NextPosition]_vars

PositionDone == pc = "done" /\ call.fn = "calcPositionScore" /\ outcome = "ok"

(***************************************************************************)
(* C16: the landscape position score of every cell is the maximum of its   *)
(* flow score and its karst score (the one that has data where the other   *)
(* has none), inside the processing mask.                                  *)
(***************************************************************************)
C16_PositionIsMax ==
    PositionDone =>
        \A c \in Cells :
            LET f == gdb[call.in_FlowScore][c]
                k == gdb[call.in_KarstScore][c]
                p == gdb[call.out_PositionScore][c]
            IN  IF ~InMask(env.mask, c) \/ (f = ND /\ k = ND) THEN p = ND
                ELSE IF f = ND THEN p = k
                ELSE IF k = ND THEN p = f
                ELSE /\ p \in {f, k}
                     /\ Leq(f, p)
                     /\ Leq(k, p)

C16_Witness ==
    /\ PositionDone
    /\ \E c \in Cells, k \in Cells :
          /\ gdb["FlowScore"][c] = I(40) /\ gdb["KarstScore"][c] = I(100)
          /\ gdb["PositionScore"][c] = I(100)
          /\ gdb["FlowScore"][k] = I(40) /\ gdb["KarstScore"][k] = I(1)
          /\ gdb["PositionScore"][k] = I(40)

(***************************************************************************)
(* calcImpactScore                                                         *)
(***************************************************************************)
InitImpact ==
    /\ pc = "idle"
    /\ call = [fn |-> "none"]
    /\ outcome = "none"
    /\ ret = <<>>
    /\ printed = <<>>
    /\ \E ps \in RastersOver(ScoreSamples), ss \in RastersOver(ScoreSamples),
          k \in RastersOver(AmbientMaskSamples) :
          gdb = ("PositionScore" :> ps) @@ ("soilSens_Score" :> ss) @@ ("MaskNoWater" :> k)
    /\ vat = <<>>
    /\ \E ambient \in {"NONE", "MaskNoWater"} : env = [EnvDefault EXCEPT !.mask = ambient]

calcImpactScore(in_PositionScore, in_SoilSensScore, out_ImpactScore) ==
    /\ pc = "idle"
    /\ pc' = "done"
    /\ call' = [fn |-> "calcImpactScore", in_PositionScore |-> in_PositionScore,
                in_SoilSensScore |-> in_SoilSensScore, out_ImpactScore |-> out_ImpactScore]
    /\ UNCHANGED <<printed, vat, env>>
    /\ outcome' = "ok"
    /\ \E score \in {maskedBy(CellStatistics(<<gdb[in_PositionScore], gdb[in_SoilSensScore]>>,
                                             "MEAN"), env.mask)} :
          /\ gdb' = Save(out_ImpactScore, score)
          /\ ret' = Path(out_ImpactScore)

CallCalcImpactScore == calcImpactScore("PositionScore", "soilSens_Score", "ImpactScore")

NextImpact == CallCalcImpactScore

SpecImpact == InitImpact /\ [][NextImpact]_vars

ImpactDone == pc = "done" /\ call.fn = "calcImpactScore" /\ outcome = "ok"

(***************************************************************************)
(* C17 (as stated): the impact score of every cell is                      *)
(* (positionScore + soilSensScore)/2; a cell where one of the two inputs   *)
(* is nodata does not receive the other input's value.                     *)
(***************************************************************************)
C17_ImpactIsMean ==
    ImpactDone =>
        \A c \in Cells :
            LET p == gdb[call.in_PositionScore][c]
                s == gdb[call.in_SoilSensScore][c]
                imp == gdb[call.out_ImpactScore][c]
            IN  IF p = ND \/ s = ND THEN imp = ND
                ELSE InMask(env.mask, c) => Add(imp, imp) = Add(p, s)

(***************************************************************************)
(* C17 (amended): inside the processing mask the impact score of a cell is *)
(* (positionScore + soilSensScore)/2 where both inputs have data, the      *)
(* value of the one input that has data where the other is nodata, and     *)
(* nodata only where both are nodata.                                      *)
(***************************************************************************)
C17_ImpactIsMeanOfData ==
    ImpactDone =>
        \A c \in Cells :
            LET p == gdb[call.in_PositionScore][c]
                s == gdb[call.in_SoilSensScore][c]
                imp == gdb[call.out_ImpactScore][c]
            IN  IF ~InMask(env.mask, c) \/ (p = ND /\ s = ND) THEN imp = ND
                ELSE IF p = ND THEN imp = s
                ELSE IF s = ND THEN imp = p
                ELSE Add(imp, imp) = Add(p, s)

C17_Witness ==
    /\ ImpactDone
    /\ \E c \in Cells, k \in Cells :
          /\ gdb["PositionScore"][c] = I(100) /\ gdb["soilSens_Score"][c] = ND
          /\ gdb["ImpactScore"][c] = I(100)
          /\ gdb["PositionScore"][k] = I(100) /\ gdb["soilSens_Score"][k] = I(1)
          /\ gdb["ImpactScore"][k] = Q(101, 2)

(***************************************************************************)
(* calcImportanceScore                                                     *)
(*                                                                         *)
(* A polygon layer gives for every cell the number of its polygons that    *)
(* cover the cell.  Scratch outputs are named after the base name of the   *)
(* layer's path.                                                           *)
(***************************************************************************)
Layers == {"gdbA/HW", "gdbB/HW", "gdbA/SCS"}

\* Line 886: os.path.basename(polys).
basename(polys) == IF polys = "gdbA/SCS" THEN "SCS" ELSE "HW"

\* Lines 888-890: the scratch names built from nameTag.
outCountName(nameTag) == IF nameTag = "SCS" THEN "polyCounts_SCS" ELSE "polyCounts_HW"
countRastName(nameTag) == IF nameTag = "SCS" THEN "countRast_SCS" ELSE "countRast_HW"
weightRastName(nameTag) == IF nameTag = "SCS" THEN "weightRast_SCS" ELSE "weightRast_HW"

\* Lines 894-898: the overlap count where a polygon covers the cell.
countRaster(layer) == [c \in Cells |-> IF layer[c] = 0 THEN ND ELSE I(layer[c])]

\* Lines 884-909, one pass of the loop over in_raList[i..]: st is the record of
\* the geodatabase, procList, and whether a tool refused to overwrite.
RECURSIVE importanceLoop(_, _, _)
importanceLoop(in_raList, i, st) ==
    IF i > Len(in_raList) \/ st.failed THEN st
    ELSE LET polys == in_raList[i][1]
             weight == in_raList[i][2]
             nameTag == basename(polys)
             countRast == countRaster(st.gdb[polys])
             g1 == (outCountName(nameTag) :> st.gdb[polys])
                   @@ (countRastName(nameTag) :> countRast) @@ st.gdb
         IN  IF outCountName(nameTag) \in DOMAIN st.gdb /\ ~env.overwriteOutput
             THEN [st EXCEPT !.failed = TRUE]
             ELSE IF weight # I(1)
             THEN importanceLoop(in_raList, i + 1,
                      [gdb |-> (weightRastName(nameTag) :>
                                   [c \in Cells |-> Mul(weight, countRast[c])]) @@ g1,
                       procList |-> Append(st.procList, weightRastName(nameTag)),
                       failed |-> FALSE])
             ELSE importanceLoop(in_raList, i + 1,
                      [gdb |-> g1,
                       procList |-> Append(st.procList, countRastName(nameTag)),
                       failed |-> FALSE])

CoverSamplesA == {0, 1, 2}
CoverSamplesB == {0, 1}
WeightSamples == {I(1), I(2)}

InitImportance ==
    /\ pc = "idle"
    /\ call = [fn |-> "none"]
    /\ outcome = "none"
    /\ ret = <<>>
    /\ printed = <<>>
    /\ \E a \in [Cells -> CoverSamplesA], b \in [Cells -> CoverSamplesB],
          s \in [Cells -> CoverSamplesB] :
          gdb = ("gdbA/HW" :> a) @@ ("gdbB/HW" :> b) @@ ("gdbA/SCS" :> s)
    /\ vat = <<>>
    /\ \E o \in BOOLEAN : env = [EnvDefault EXCEPT !.overwriteOutput = o]

calcImportanceScore(in_raList, in_Snap, out_Raster) ==
    /\ pc = "idle"
    /\ pc' = "done"
    /\ call' = [fn |-> "calcImportanceScore", in_raList |-> in_raList, in_Snap |-> in_Snap,
                out_Raster |-> out_Raster]
    /\ UNCHANGED <<printed, vat, env>>
    /\ \E st \in {importanceLoop(in_raList, 1, [gdb |-> gdb, procList |-> <<>>,
                                                 failed |-> FALSE])} :
          IF st.failed
          THEN \* a geoprocessing tool refuses to overwrite an existing output
               /\ outcome' = "ExecuteError"
               /\ gdb' = st.gdb
               /\ ret' = <<>>
          ELSE \E wtSum \in {IF Len(st.procList) > 1
                             THEN CellStatistics([i \in 1..Len(st.procList) |->
                                                     st.gdb[st.procList[i]]], "SUM")
                             ELSE st.gdb[st.procList[1]]} :
               IF maximum(wtSum) = None
               THEN \* line 922: division by the None maximum
                    /\ outcome' = "TypeError"
                    /\ gdb' = st.gdb
                    /\ ret' = <<>>
               ELSE /\ outcome' = "ok"
                    /\ gdb' = (out_Raster :>
                                  [c \in Cells |-> Div(Mul(I(100), wtSum[c]), maximum(wtSum))])
                              @@ st.gdb
                    /\ ret' = Path(out_Raster)

RaLists ==
    {<<t>> : t \in Layers \X WeightSamples}
    \cup {<<t, u>> : t \in Layers \X WeightSamples, u \in Layers \X WeightSamples}

CallCalcImportanceScore ==
    \E in_raList \in RaLists : calcImportanceScore(in_raList, "in_Snap", "ImportanceScore")

NextImportance == CallCalcImportanceScore

SpecImportance == InitImportance /\ [][NextImportance]_vars

ImportanceCalled == pc = "done" /\ call.fn = "calcImportanceScore"

\* The claimed weighted sum of a cell: over the pairs of the list whose layer
\* covers the cell, weight times overlap count.
ClaimedSum(c) ==
    SeqSum([i \in 1..Len(call.in_raList) |->
               Mul(call.in_raList[i][2], I(gdb[call.in_raList[i][1]][c]))])

Covered(c) == \E i \in 1..Len(call.in_raList) : gdb[call.in_raList[i][1]][c] > 0

ClaimedImportance ==
    /\ outcome = "ok"
    /\ \E top \in {c \in Cells : Covered(c)} :
          /\ \A c \in Cells : Leq(ClaimedSum(c), ClaimedSum(top))
          /\ gdb[call.out_Raster][top] = I(100)
          /\ \A c \in Cells :
                LET score == gdb[call.out_Raster][c]
                IN  IF ~Covered(c) THEN score = ND
                    ELSE /\ score = Div(Mul(I(100), ClaimedSum(c)), ClaimedSum(top))
                         /\ Less(I(0), score)
                         /\ Leq(score, I(100))

(***************************************************************************)
(* C18: for any non-empty list of (layer, positive weight) pairs, the      *)
(* score of a covered cell is 100 * (sum over the layers covering it of    *)
(* weight * overlap count) / (maximum of that sum): the maximum cell is    *)
(* 100, data cells are in (0,100], a cell no layer covers is nodata, and a *)
(* layer that does not cover a cell contributes nothing to it.             *)
(***************************************************************************)
C18_Importance ==
    (ImportanceCalled /\ \E c \in Cells : Covered(c)) => ClaimedImportance

\* Two pairs of the list have layers of the same base name.
NameClash ==
    \E i \in 1..Len(call.in_raList), j \in 1..Len(call.in_raList) :
        /\ i # j
        /\ basename(call.in_raList[i][1]) = basename(call.in_raList[j][1])

\* The claimed score is what the call yields when no two pairs share a base name.
C18_DistinctNames ==
    (ImportanceCalled /\ ~NameClash /\ \E c \in Cells : Covered(c)) => ClaimedImportance

\* The first layer's counts are lost: its scratch raster was overwritten.
C18_Overwritten ==
    /\ ImportanceCalled
    /\ outcome = "ok"
    /\ call.in_raList = <<<<"gdbA/HW", I(1)>>, <<"gdbB/HW", I(1)>>>>
    /\ \E c \in Cells :
          /\ gdb["gdbA/HW"][c] = 2 /\ gdb["gdbB/HW"][c] = 0
          /\ gdb["ImportanceScore"][c] = ND

(***************************************************************************)
(* calcPriorityScores                                                      *)
(***************************************************************************)
\* Line 995 without the division by 100.
generalPriorityUnscaled(in_ImpactScore, in_ImportanceScore) ==
    IF ~IsPath(in_ImportanceScore) /\ in_ImportanceScore.num = I(1)
    THEN gdb[in_ImpactScore]
    ELSE [c \in Cells |-> Mul(gdb[in_ImportanceScore.path][c], gdb[in_ImpactScore][c])]

\* Lines 992-995: p_Score.
generalPriority(in_ImpactScore, in_ImportanceScore) ==
    IF ~IsPath(in_ImportanceScore) /\ in_ImportanceScore.num = I(1)
    THEN gdb[in_ImpactScore]
    ELSE [c \in Cells |-> Mul(Div(gdb[in_ImportanceScore.path][c], I(100)),
                              gdb[in_ImpactScore][c])]

\* Line 1001, Slice(p_Score, slice, "EQUAL_AREA", 1): zones 1..slice holding equal
\* numbers of cells in the order of their values; equal values share a zone.
Slice(r, slice) ==
    [c \in Cells |->
        IF r[c] = ND THEN ND
        ELSE I(1 + (Cardinality({k \in DataCells(r) : Less(r[k], r[c])}) * slice)
                   \div Cardinality(DataCells(r)))]

\* Lines 1019-1027 with a mask cell of value 0 counted as inside the mask.
priorityOfDataMask(in_Mask, score) ==
    [c \in Cells |-> IF gdb[in_Mask][c] = ND THEN ND ELSE score[c]]

\* Lines 1019-1027: Con(mask, score).
priorityOf(in_Mask, score) == [c \in Cells |-> ConT(gdb[in_Mask][c], score[c])]

\* Lines 980-987: the path an output is saved to.  The loop at lines 986-987
\* rebinds its own variable p only, so the four paths stay as built at 980-983.
outputPath(name, nameTag) == name

ImpactSamples == {I(40), I(100), ND}
ImportanceSamples == {I(50), ND}
ConsMaskSamples == {I(1), ND}
RestMaskSamples == {I(1), I(0), ND}
MgmtMaskSamples == {I(1), ND}
defaultSlice == 10

InitPriority ==
    /\ pc = "idle"
    /\ call = [fn |-> "none"]
    /\ outcome = "none"
    /\ ret = <<>>
    /\ printed = <<>>
    /\ \E impact \in RastersOver(ImpactSamples), importance \in RastersOver(ImportanceSamples),
          cons \in RastersOver(ConsMaskSamples), rest \in RestMaskSamples,
          mgmt \in MgmtMaskSamples :
          gdb = ("ImpactScore" :> impact) @@ ("ImportanceScore" :> importance)
                @@ ("ConsMask" :> cons) @@ ("RestMask" :> [c \in Cells |-> rest])
                @@ ("MgmtMask" :> [c \in Cells |-> mgmt])
    /\ vat = <<>>
    /\ env = EnvDefault

calcPriorityScores(in_ImpactScore, in_ImportanceScore, in_ConsMask, in_RestMask, in_MgmtMask, out_GDB, rescale, slice, nameTag) ==
    /\ pc = "idle"
    /\ pc' = "done"
    /\ call' = [fn |-> "calcPriorityScores", in_ImpactScore |-> in_ImpactScore,
                in_ImportanceScore |-> in_ImportanceScore, in_ConsMask |-> in_ConsMask,
                in_RestMask |-> in_RestMask, in_MgmtMask |-> in_MgmtMask,
                out_GDB |-> out_GDB, rescale |-> rescale, slice |-> slice,
                nameTag |-> nameTag]
    /\ UNCHANGED <<printed, vat, env>>
    /\ \E p_Score \in {generalPriority(in_ImpactScore, in_ImportanceScore)} :
       \E g1 \in {IF IsPath(in_ImportanceScore) THEN Save(outputPath("genPriority", nameTag), p_Score) ELSE gdb} :
          IF rescale = "STANDARD"
          THEN \* line 1010 reads rmin, a name that is never bound (rMin is)
               /\ outcome' = "NameError"
               /\ gdb' = g1
               /\ ret' = <<>>
          ELSE \E score \in {IF rescale = "SLICE" THEN Slice(p_Score, slice) ELSE p_Score} :
               \E cons \in {priorityOf(in_ConsMask, score)},
                  rest \in {priorityOf(in_RestMask, score)},
                  mgmt \in {priorityOf(in_MgmtMask, score)} :
                  /\ outcome' = "ok"
                  /\ gdb' = (outputPath("consPriority", nameTag) :> cons)
                            @@ (outputPath("restPriority", nameTag) :> rest)
                            @@ (outputPath("mgmtPriority", nameTag) :> mgmt)
                            @@ (IF rescale = "SLICE" THEN ("genPriority_slice" :> score) @@ g1
                                ELSE g1)
                  /\ ret' = <<cons, rest, mgmt>>

RescaleOptions == {"SLICE", "STANDARD", "NONE"}

\* The values of rescale the runs use: the options and a string that is none.
RescaleInputs == RescaleOptions \cup {"QUANTILE"}

CallCalcPriorityScores ==
    \E in_ImportanceScore \in {Num(I(1)), Path("ImportanceScore")},
       rescale \in RescaleInputs, nameTag \in {"NONE", "tag"} :
        calcPriorityScores("ImpactScore", in_ImportanceScore, "ConsMask", "RestMask",
                           "MgmtMask", "out_GDB", rescale, defaultSlice, nameTag)

NextPriority == CallCalcPriorityScores

SpecPriority == InitPriority /\ [][NextPriority]_vars

PriorityCalled == pc = "done" /\ call.fn = "calcPriorityScores"
PriorityDone == PriorityCalled /\ outcome = "ok"

\* The claimed general priority score of a cell in the finished call.
ClaimedPriority(c) ==
    IF IsPath(call.in_ImportanceScore)
    THEN Mul(Div(gdb[call.in_ImportanceScore.path][c], I(100)), gdb[call.in_ImpactScore][c])
    ELSE gdb[call.in_ImpactScore][c]

MaskSet(maskName, c) == gdb[maskName][c] # ND /\ gdb[maskName][c] # I(0)

(***************************************************************************)
(* C19: the general priority score of a cell is the impact score when the  *)
(* importance argument is the constant 1 and importance/100 * impact when  *)
(* it is a raster; with rescale NONE it is the score each of the three     *)
(* outputs has inside its mask.                                            *)
(***************************************************************************)
C19_GeneralPriority ==
    /\ (PriorityCalled /\ IsPath(call.in_ImportanceScore)) =>
          \A c \in Cells : gdb["genPriority"][c] = ClaimedPriority(c)
    /\ (PriorityDone /\ call.rescale = "NONE") =>
          \A c \in Cells :
              /\ MaskSet(call.in_ConsMask, c) => gdb["consPriority"][c] = ClaimedPriority(c)
              /\ MaskSet(call.in_RestMask, c) => gdb["restPriority"][c] = ClaimedPriority(c)
              /\ MaskSet(call.in_MgmtMask, c) => gdb["mgmtPriority"][c] = ClaimedPriority(c)

C19_Witness ==
    /\ PriorityDone
    /\ call.rescale = "NONE"
    /\ IsPath(call.in_ImportanceScore)
    /\ \E c \in Cells :
          /\ gdb["ImpactScore"][c] = I(40) /\ gdb["ImportanceScore"][c] = I(50)
          /\ gdb["genPriority"][c] = I(20)
          /\ gdb["consPriority"][c] = I(20)
          /\ gdb["restPriority"][c] = I(20)
          /\ gdb["mgmtPriority"][c] = I(20)

C19_WitnessConstant ==
    /\ PriorityDone
    /\ call.rescale = "NONE"
    /\ ~IsPath(call.in_ImportanceScore)
    /\ \E c \in Cells : gdb["ImpactScore"][c] = I(40) /\ gdb["consPriority"][c] = I(40)

(***************************************************************************)
(* C20: with rescale STANDARD calcPriorityScores completes, and the three  *)
(* outputs carry the general priority score re-linearized so that its      *)
(* minimum maps to 1 and its maximum to 100, every data cell in [1,100].   *)
(***************************************************************************)
C20_Standard ==
    (PriorityCalled /\ call.rescale = "STANDARD") =>
        /\ outcome = "ok"
        /\ \A o \in {"consPriority", "restPriority", "mgmtPriority"} :
              /\ o \in DOMAIN gdb
              /\ \A c \in Cells : gdb[o][c] # ND => InScoreRange(gdb[o][c])

\* The one score the finished call masks into its outputs.
CommonScore ==
    IF call.rescale = "SLICE" THEN gdb["genPriority_slice"]
    ELSE [c \in Cells |-> ClaimedPriority(c)]

PriorityOutputs ==
    {<<"consPriority", call.in_ConsMask>>, <<"restPriority", call.in_RestMask>>,
     <<"mgmtPriority", call.in_MgmtMask>>}

(***************************************************************************)
(* C21: each of the three outputs has, at every cell inside its own mask,  *)
(* the value of the one common (rescaled) priority score and is nodata at  *)
(* every cell outside its mask; two outputs agree wherever both masks are  *)
(* set.                                                                    *)
(***************************************************************************)
C21_MaskedOutputs ==
    PriorityDone =>
        /\ \A o \in PriorityOutputs : \A c \in Cells :
              gdb[o[1]][c] = IF MaskSet(o[2], c) THEN CommonScore[c] ELSE ND
        /\ \A o \in PriorityOutputs, q \in PriorityOutputs : \A c \in Cells :
              (MaskSet(o[2], c) /\ MaskSet(q[2], c)) => gdb[o[1]][c] = gdb[q[1]][c]

C21_Witness ==
    /\ PriorityDone
    /\ call.rescale = "SLICE"
    /\ \E c \in Cells, k \in Cells :
          /\ MaskSet("ConsMask", c) /\ gdb["RestMask"][c] = I(0) /\ MaskSet("MgmtMask", c)
          /\ gdb["genPriority_slice"][c] = I(6)
          /\ gdb["consPriority"][c] = I(6)
          /\ gdb["restPriority"][c] = ND
          /\ gdb["mgmtPriority"][c] = I(6)
          /\ ~MaskSet("ConsMask", k) /\ gdb["genPriority_slice"][k] = I(1)
          /\ gdb["consPriority"][k] = ND /\ gdb["mgmtPriority"][k] = I(1)

\* The name an output should carry: name_<nameTag> unless nameTag is "NONE".
TaggedName(name) ==
    IF call.nameTag = "NONE" THEN name
    ELSE IF name = "genPriority" THEN "genPriority_tag"
    ELSE IF name = "consPriority" THEN "consPriority_tag"
    ELSE IF name = "restPriority" THEN "restPriority_tag"
    ELSE "mgmtPriority_tag"

(***************************************************************************)
(* C22: when nameTag is not "NONE" the saved outputs genPriority,          *)
(* consPriority, restPriority and mgmtPriority carry the suffix            *)
(* _<nameTag>: a tagged run writes none of the untagged names, so runs     *)
(* with different tags do not overwrite each other's outputs.              *)
(***************************************************************************)
C22_TaggedOutputs ==
    (PriorityDone /\ call.nameTag # "NONE") =>
        \A name \in {"consPriority", "restPriority", "mgmtPriority"} :
            /\ TaggedName(name) \in DOMAIN gdb
            /\ name \notin DOMAIN gdb

(***************************************************************************)
(* SSURGOtoRaster                                                          *)
(*                                                                         *)
(* A gSSURGO geodatabase that can be rasterized is in gdb as the raster    *)
(* of its MUPOLYGON field; PolyToRaster raises for one that is not there.  *)
(***************************************************************************)
SsurgoUnits == {"dirA/soil.gdb", "dirB/soil.gdb", "dirA/VA.gdb"}

\* Lines 233-235: outRast, the scratch raster named after the base name.
outRast(unit) == IF unit = "dirA/VA.gdb" THEN "scratch/VA" ELSE "scratch/soil"

\* Line 239: the message printed for a unit that failed.
failedMsg(unit) ==
    IF unit = "dirA/VA.gdb" THEN "Failed to rasterize VA" ELSE "Failed to rasterize soil"

\* Lines 230-239, the loop from in_gdbList[i] on: st holds the geodatabase
\* contents, rasterList and the messages printed so far.
RECURSIVE ssurgoLoop(_, _, _)
ssurgoLoop(in_gdbList, i, st) ==
    IF i > Len(in_gdbList) THEN st
    ELSE IF in_gdbList[i] \in DOMAIN st.gdb
    THEN ssurgoLoop(in_gdbList, i + 1,
             [st EXCEPT !.gdb = (outRast(in_gdbList[i]) :> st.gdb[in_gdbList[i]]) @@ st.gdb,
                        !.rasterList = Append(st.rasterList, outRast(in_gdbList[i]))])
    ELSE ssurgoLoop(in_gdbList, i + 1,
             [st EXCEPT !.printed = Append(st.printed, failedMsg(in_gdbList[i]))])

OptionalRaster(name, vals) ==
    {<<>>} \cup {(name :> r) : r \in RastersOver(vals)}

InitSsurgo ==
    /\ pc = "idle"
    /\ call = [fn |-> "none"]
    /\ outcome = "none"
    /\ ret = <<>>
    /\ printed = <<>>
    /\ \E a \in OptionalRaster("dirA/soil.gdb", {I(1), I(4), ND}),
          b \in OptionalRaster("dirB/soil.gdb", {I(2), ND}),
          v \in OptionalRaster("dirA/VA.gdb", {I(3), ND}) :
          gdb = a @@ b @@ v
    /\ vat = <<>>
    /\ env = EnvDefault

SSURGOtoRaster(in_gdbList, in_Fld, in_Snap, out_Raster) ==
    /\ pc = "idle"
    /\ pc' = "done"
    /\ call' = [fn |-> "SSURGOtoRaster", in_gdbList |-> in_gdbList, in_Fld |-> in_Fld,
                in_Snap |-> in_Snap, out_Raster |-> out_Raster]
    /\ UNCHANGED <<vat, ret>>
    /\ env' = [env EXCEPT !.overwriteOutput = TRUE]
    /\ \E st \in {ssurgoLoop(in_gdbList, 1, [gdb |-> gdb, rasterList |-> <<>>,
                                             printed |-> printed])} :
          /\ printed' = st.printed
          /\ IF st.rasterList = <<>>
             THEN \* line 242: CellStatistics raises for an empty list of rasters
                  /\ outcome' = "RuntimeError"
                  /\ gdb' = st.gdb
             ELSE /\ outcome' = "ok"
                  /\ gdb' = (out_Raster :>
                                CellStatistics([i \in 1..Len(st.rasterList) |->
                                                   st.gdb[st.rasterList[i]]], "MAXIMUM"))
                            @@ st.gdb

GdbLists ==
    {<<u>> : u \in SsurgoUnits}
    \cup {l \in [1..2 -> SsurgoUnits] : l[1] # l[2]}
    \cup {l \in [1..3 -> SsurgoUnits] : Cardinality({l[1], l[2], l[3]}) = 3}

CallSSURGOtoRaster ==
    \E in_gdbList \in GdbLists : SSURGOtoRaster(in_gdbList, "HydroGrpNum", "in_Snap", "HydroGroup")

NextSsurgo == CallSSURGOtoRaster

SpecSsurgo == InitSsurgo /\ [][NextSsurgo]_vars

SsurgoCalled == pc = "done" /\ call.fn = "SSURGOtoRaster"

\* The positions of the list whose unit was rasterized, and whose unit failed.
Succeeded == {i \in 1..Len(call.in_gdbList) : call.in_gdbList[i] \in DOMAIN gdb}
Failed == {i \in 1..Len(call.in_gdbList) : call.in_gdbList[i] \notin DOMAIN gdb}

\* The run completes, logs one message per failed unit, and merges by the
\* cell-wise maximum over exactly the units that succeeded.
ClaimedMerge ==
    /\ outcome = "ok"
    /\ Len(printed) = Cardinality(Failed)
    /\ \A i \in Failed : \E k \in 1..Len(printed) : printed[k] = failedMsg(call.in_gdbList[i])
    /\ \A c \in Cells :
          LET vals == {gdb[call.in_gdbList[i]][c] : i \in Succeeded} \ {ND}
              fin == gdb[call.out_Raster][c]
          IN  IF vals = {} THEN fin = ND
              ELSE fin \in vals /\ \A v \in vals : Leq(v, fin)

(***************************************************************************)
(* C23: for every non-empty list of geodatabases and every subset of them  *)
(* whose rasterization fails, each failed unit is skipped and logged,      *)
(* every later unit is still processed, and the merge is the cell-wise     *)
(* maximum over exactly the units that succeeded; the run is not aborted.  *)
(***************************************************************************)
C23_PartialFailure == SsurgoCalled => ClaimedMerge

\* Two units of the list are rasterized into the same scratch raster.
ScratchClash ==
    \E i \in Succeeded, k \in Succeeded :
        i # k /\ outRast(call.in_gdbList[i]) = outRast(call.in_gdbList[k])

\* The claimed merge is what the call yields when at least one unit succeeds
\* and no two succeeding units share a base name.
C23_SomeSucceedDistinctNames ==
    (SsurgoCalled /\ Succeeded # {} /\ ~ScratchClash) => ClaimedMerge

\* A failed first unit is logged and the later unit is merged.
C23_SkippedAndMerged ==
    /\ SsurgoCalled
    /\ outcome = "ok"
    /\ call.in_gdbList = <<"dirA/soil.gdb", "dirA/VA.gdb">>
    /\ Failed = {1}
    /\ printed = <<"Failed to rasterize soil">>
    /\ \E c \in Cells : gdb["HydroGroup"][c] = I(3)

\* Every unit fails: the merge raises.
C23_AllFailed ==
    /\ SsurgoCalled
    /\ Succeeded = {}
    /\ outcome = "RuntimeError"

\* The first unit's raster is lost to the second unit of the same base name.
C23_Overwritten ==
    /\ SsurgoCalled
    /\ outcome = "ok"
    /\ call.in_gdbList = <<"dirA/soil.gdb", "dirB/soil.gdb">>
    /\ Failed = {}
    /\ \E c \in Cells :
          /\ gdb["dirA/soil.gdb"][c] = I(4) /\ gdb["dirB/soil.gdb"][c] = I(2)
          /\ gdb["HydroGroup"][c] = I(2)

(***************************************************************************)
(* HydroGrp_vec                                                            *)
(*                                                                         *)
(* A text field value is a null or a string; a string is the sequence of   *)
(* its characters.  The polygons of MUPOLYGON are indexed by Cells.        *)
(***************************************************************************)
NullFld == [isNull |-> TRUE, s |-> <<>>]
Str(s) == [isNull |-> FALSE, s |-> s]

\* Lines 109-113: the dictionary d of grpNum.
d == (<<"A">> :> 1) @@ (<<"B">> :> 2) @@ (<<"C">> :> 3) @@ (<<"D">> :> 4)

\* Lines 115-120: the key looked up for a field value.
grpKey(fld) ==
    IF fld.isNull THEN <<"D">>
    ELSE IF Len(fld.s) > 1 THEN <<fld.s[Len(fld.s)]>>
    ELSE fld.s

\* Lines 108-124: grpNum; d[key] raises KeyError for a key that d does not have.
grpNum(fld) ==
    IF grpKey(fld) \in DOMAIN d
    THEN [raised |-> FALSE, val |-> I(d[grpKey(fld)])]
    ELSE [raised |-> TRUE, val |-> ND]

\* The hydrologic group codes of gSSURGO, and an empty text.
HydroGrpCodes ==
    {Str(<<"A">>), Str(<<"B">>), Str(<<"C">>), Str(<<"D">>),
     Str(<<"A", "/", "D">>), Str(<<"B", "/", "D">>)}
HydroGrpValues == HydroGrpCodes \cup {NullFld, Str(<<>>)}

MuKeys == {1, 2}

InitHydroGrp ==
    /\ pc = "idle"
    /\ call = [fn |-> "none"]
    /\ outcome = "none"
    /\ ret = <<>>
    /\ printed = <<>>
    /\ \E mukey \in [Cells -> MuKeys],
          hydroTab \in UNION {[K -> HydroGrpValues] : K \in SUBSET MuKeys} :
          gdb = ("MUPOLYGON.MUKEY" :> mukey) @@ ("SDV_HydrolGrp_DCD" :> hydroTab)
    /\ vat = <<>>
    /\ env = EnvDefault

HydroGrp_vec(in_GDB) ==
    /\ pc = "idle"
    /\ pc' = "done"
    /\ call' = [fn |-> "HydroGrp_vec", in_GDB |-> in_GDB]
    /\ UNCHANGED <<vat, ret, printed, env>>
    /\ \E joined \in {[p \in Cells |->
                         IF gdb["MUPOLYGON.MUKEY"][p] \in DOMAIN gdb["SDV_HydrolGrp_DCD"]
                         THEN gdb["SDV_HydrolGrp_DCD"][gdb["MUPOLYGON.MUKEY"][p]]
                         ELSE NullFld]} :
          IF \E p \in Cells : grpNum(joined[p]).raised
          THEN \* line 127: CalculateField fails, the added field stays null
               /\ outcome' = "ExecuteError"
               /\ gdb' = ("MUPOLYGON.HYDROLGRP_DCD" :> joined)
                         @@ ("MUPOLYGON.HydroGrpNum" :> [p \in Cells |-> ND]) @@ gdb
          ELSE /\ outcome' = "ok"
               /\ gdb' = ("MUPOLYGON.HYDROLGRP_DCD" :> joined)
                         @@ ("MUPOLYGON.HydroGrpNum" :> [p \in Cells |-> grpNum(joined[p]).val])
                         @@ gdb

CallHydroGrp_vec == HydroGrp_vec("in_GDB")

NextHydroGrp == CallHydroGrp_vec

SpecHydroGrp == InitHydroGrp /\ [][NextHydroGrp]_vars

HydroGrpDone == pc = "done" /\ call.fn = "HydroGrp_vec"

\* The numeric group claimed for a field value: 4 for a null, otherwise the
\* number of the last group the value names.
ClaimedGrpNum(fld, n) ==
    /\ n \in {I(1), I(2), I(3), I(4)}
    /\ fld.isNull => n = I(4)
    /\ (~fld.isNull /\ fld.s # <<>>) =>
          \/ fld.s[Len(fld.s)] = "A" /\ n = I(1)
          \/ fld.s[Len(fld.s)] = "B" /\ n = I(2)
          \/ fld.s[Len(fld.s)] = "C" /\ n = I(3)
          \/ fld.s[Len(fld.s)] = "D" /\ n = I(4)

(***************************************************************************)
(* C24: for every value of the hydrologic group field HydroGrp_vec gives a *)
(* number in 1..4 (A, B, C, D are 1, 2, 3, 4, a compound value the number  *)
(* of its last group, a null 4); no field value makes the mapping fail or  *)
(* leaves a null.                                                          *)
(***************************************************************************)
C24_HydroGrpNum ==
    HydroGrpDone =>
        /\ outcome = "ok"
        /\ \A p \in Cells :
              ClaimedGrpNum(gdb["MUPOLYGON.HYDROLGRP_DCD"][p], gdb["MUPOLYGON.HydroGrpNum"][p])

\* The mapping is as claimed when every polygon has a null or a group code.
C24_GroupCodes ==
    (HydroGrpDone /\ \A p \in Cells :
                        gdb["MUPOLYGON.HYDROLGRP_DCD"][p] \in HydroGrpCodes \cup {NullFld})
    => /\ outcome = "ok"
       /\ \A p \in Cells :
             ClaimedGrpNum(gdb["MUPOLYGON.HYDROLGRP_DCD"][p], gdb["MUPOLYGON.HydroGrpNum"][p])

\* A compound value and a null in one run.
C24_CompoundAndNull ==
    /\ HydroGrpDone
    /\ outcome = "ok"
    /\ \E p \in Cells : /\ gdb["MUPOLYGON.HYDROLGRP_DCD"][p] = Str(<<"B", "/", "D">>)
                        /\ gdb["MUPOLYGON.HydroGrpNum"][p] = I(4)
    /\ \E p \in Cells : /\ gdb["MUPOLYGON.HYDROLGRP_DCD"][p] = NullFld
                        /\ gdb["MUPOLYGON.HydroGrpNum"][p] = I(4)

\* An empty text in the field: the calculation fails.
C24_EmptyText ==
    /\ HydroGrpDone
    /\ outcome = "ExecuteError"
    /\ \E p \in Cells : gdb["MUPOLYGON.HYDROLGRP_DCD"][p] = Str(<<>>)

(***************************************************************************)
(* Inputs of a call                                                        *)
(***************************************************************************)
\* Every raster there before a step is there after it with the same cells.
RastersKept == \A n \in DOMAIN gdb : n \in DOMAIN gdb' /\ gdb'[n] = gdb[n]

\* The fields of the land-cover attribute table other than cn_A .. cn_D are
\* there after the step with the same values.
OtherFieldsKept ==
    \A f \in DOMAIN vat \ {cnFld[hydroGrps[i]] : i \in 1..4} :
        f \in DOMAIN vat' /\ vat'[f] = vat[f]

(***************************************************************************)
(* C25: no function changes an input raster in place: after any call,      *)
(* curvNum with a land-cover raster included, every input raster has the   *)
(* cell values and the attribute table it had, and only the named outputs  *)
(* are new.                                                                *)
(***************************************************************************)
C25_WriteOnce == [][RastersKept /\ vat' = vat]_vars

\* C25 (amended): every call keeps the cell values of every input raster;
\* curvNum with a land-cover raster rewrites the fields cn_A .. cn_D of the
\* land-cover attribute table and keeps its other fields, and nothing else
\* changes an attribute table.
C25_CellValuesKept ==
    [][/\ RastersKept
       /\ OtherFieldsKept
       /\ IF call'.fn = "curvNum" /\ IsPath(call'.in_LC)
          THEN \A i \in 1..4 : cnFld[hydroGrps[i]] \in DOMAIN vat'
          ELSE vat' = vat]_vars

\* curvNum has run on a land-cover raster whose table had other fields: the
\* raster and the COUNT field are as before, the cn_ fields are new.
C25_Witness ==
    /\ pc = "done" /\ call.fn = "curvNum" /\ IsPath(call.in_LC)
    /\ outcome = "ok"
    /\ "COUNT" \in DOMAIN vat /\ "cn_D" \in DOMAIN vat
    /\ \E code \in DOMAIN vat["cn_A"] : vat["cn_A"][code] # 0
    /\ call.out_CN \in DOMAIN gdb

(***************************************************************************)
(* Validation of the option strings                                        *)
(***************************************************************************)
PriorityOutputNames ==
    {"genPriority", "genPriority_slice", "genPriority_rscl",
     "consPriority", "restPriority", "mgmtPriority"}

(***************************************************************************)
(* C26: a call of calcPriorityScores with a rescale value outside SLICE,   *)
(* STANDARD, NONE is rejected with a configuration error before anything   *)
(* is computed, and is not treated as NONE.                                *)
(***************************************************************************)
C26_RescaleValidated ==
    (PriorityCalled /\ call.rescale \notin RescaleOptions) =>
        /\ outcome = "ConfigurationError"
        /\ \A n \in PriorityOutputNames : n \notin DOMAIN gdb

\* C26, for eventRunoff: a call with an inputType outside CN, RET is rejected
\* with a configuration error before anything is computed.
C26_InputTypeValidated ==
    (RunoffDone /\ call.inputType \notin {"CN", "RET"}) =>
        /\ outcome = "ConfigurationError"
        /\ DOMAIN gdb = {"in_Raster", "in_Rain"}

\* An unknown rescale value completes with the outputs of NONE.
C26_TreatedAsNone ==
    /\ PriorityDone
    /\ call.rescale = "QUANTILE"
    /\ "genPriority" \in DOMAIN gdb
    /\ "genPriority_slice" \notin DOMAIN gdb
    /\ \E c \in Cells : gdb["consPriority"][c] # ND /\ gdb["consPriority"][c] = gdb["genPriority"][c]

\* An unknown inputType ends as RET does.
C26_TreatedAsRet ==
    /\ RunoffDone
    /\ call.inputType = "RETENTION"
    /\ outcome = "UnboundLocalError"
    /\ DOMAIN gdb = {"in_Raster", "in_Rain"}

(***************************************************************************)
(* calcSinkScore                                                           *)
(*                                                                         *)
(* FeatureToPoint, ProjectToMatch_vec and KernelDensity are tools: the     *)
(* sinkhole polygons are represented by the density surface the tools      *)
(* derive from them, 0 where no sinkhole is within the search radius.      *)
(***************************************************************************)
KernelDensity(in_SinkPolys, procMask) == maskedBy(gdb[in_SinkPolys], procMask)

\* Line 753: msk = Con(kdens > 0, 1).
positiveMask(kdens) == [c \in Cells |-> ConT(GtC(kdens[c], I(0)), I(1))]

\* Lines 754-755: int(TruncMax) of the positive densities, None when
\* getTruncVals has no cell to take statistics of.
sinkTruncMax(kdens) ==
    IF minimum(selectCells(kdens, positiveMask(kdens))) = None THEN None
    ELSE IntC(truncVals(selectCells(kdens, positiveMask(kdens)), defaultNumSD)[2])

DensitySamples == {I(0), Q(1, 2), I(2), I(5)}
ProcMaskSamples == {I(1), ND}

InitSink ==
    /\ pc = "idle"
    /\ call = [fn |-> "none"]
    /\ outcome = "none"
    /\ ret = <<>>
    /\ printed = <<>>
    /\ \E dens \in RastersOver(DensitySamples), pm \in RastersOver(ProcMaskSamples),
          cm \in RastersOver(ProcMaskSamples) :
          gdb = ("SinkPolys" :> dens) @@ ("procMask" :> pm) @@ ("MaskNoWater" :> cm)
    /\ vat = <<>>
    /\ env = EnvDefault

calcSinkScore(in_SinkPolys, fld_Area, procMask, clipMask, out_GDB, searchRadius) ==
    /\ pc = "idle"
    /\ pc' = "done"
    /\ call' = [fn |-> "calcSinkScore", in_SinkPolys |-> in_SinkPolys, fld_Area |-> fld_Area,
                procMask |-> procMask, clipMask |-> clipMask, out_GDB |-> out_GDB,
                searchRadius |-> searchRadius]
    /\ UNCHANGED <<printed, vat>>
    /\ \E kdens \in {KernelDensity(in_SinkPolys, procMask)} :
       \E TruncMax \in {sinkTruncMax(kdens)} :
          IF TruncMax = None
          THEN \* line 41: max(rMin, ...) with statistics that are None
               /\ outcome' = "TypeError"
               /\ env' = [env EXCEPT !.mask = procMask]
               /\ gdb' = ("sinkDens" :> kdens) @@ gdb
               /\ ret' = <<>>
          ELSE \E Fx \in {TfLinear("", "", I(0), I(1), TruncMax, I(100))} :
               \E Score \in {maskedBy(RescaleByFunction(kdens, Fx, I(1), I(100)), clipMask)} :
                  /\ outcome' = "ok"
                  /\ env' = [env EXCEPT !.mask = clipMask]
                  /\ gdb' = ("sinkScore" :> Score) @@ ("sinkDens" :> kdens) @@ gdb
                  /\ ret' = Score

CallCalcSinkScore ==
    calcSinkScore("SinkPolys", "fld_Area", "procMask", "MaskNoWater", "procGDB", I(5000))

NextSink == CallCalcSinkScore

SpecSink == InitSink /\ [][NextSink]_vars

SinkCalled == pc = "done" /\ call.fn = "calcSinkScore"

SomePositiveDensity == \E c \in Cells : gdb["sinkDens"][c] # ND /\ Less(I(0), gdb["sinkDens"][c])

\* The rescale of a completed call is non-degenerate and gives scores in 1..100.
ClaimedSinkScore ==
    /\ outcome = "ok"
    /\ Less(I(0), sinkTruncMax(gdb["sinkDens"]))
    /\ \A c \in Cells :
          gdb["sinkScore"][c] # ND =>
             /\ Leq(I(1), gdb["sinkScore"][c]) /\ Leq(gdb["sinkScore"][c], I(100))
             /\ gdb["sinkDens"][c] = I(0) => gdb["sinkScore"][c] = I(1)
             /\ Leq(sinkTruncMax(gdb["sinkDens"]), gdb["sinkDens"][c]) => gdb["sinkScore"][c] = I(100)

(***************************************************************************)
(* C29: when at least one cell has a positive kernel density, the linear   *)
(* rescale of calcSinkScore is non-degenerate: int(TruncMax) is greater    *)
(* than the lower bound 0, density 0 scores 1, the upper bound scores 100, *)
(* and every sinkhole score is in 1..100.                                  *)
(***************************************************************************)
C29_NonDegenerate == (SinkCalled /\ SomePositiveDensity) => ClaimedSinkScore

\* The same when some density is at least 1.
C29_DensityAtLeastOne ==
    (SinkCalled /\ \E c \in Cells : gdb["sinkDens"][c] # ND /\ Leq(I(1), gdb["sinkDens"][c]))
    => ClaimedSinkScore

\* Densities 0, 2 and 5 scored 1, between and 100.
C29_Scored ==
    /\ SinkCalled /\ outcome = "ok"
    /\ sinkTruncMax(gdb["sinkDens"]) = I(5)
    /\ \E c \in Cells : gdb["sinkDens"][c] = I(5) /\ gdb["sinkScore"][c] = I(100)
    /\ \E c \in Cells : gdb["sinkDens"][c] # ND /\ Less(gdb["sinkDens"][c], I(5))
                        /\ gdb["sinkScore"][c] # ND /\ Less(gdb["sinkScore"][c], I(100))

\* Every positive density is below 1: both thresholds of the rescale are 0.
C29_Degenerate ==
    /\ SinkCalled /\ outcome = "ok"
    /\ SomePositiveDensity
    /\ sinkTruncMax(gdb["sinkDens"]) = I(0)

(***************************************************************************)
(* A session: the scoring functions called one after another, in any       *)
(* order, in one Python process, so that arcpy.env is shared by the calls. *)
(***************************************************************************)
InitSession ==
    /\ pc = "idle"
    /\ call = [fn |-> "none"]
    /\ outcome = "none"
    /\ ret = <<>>
    /\ printed = <<>>
    /\ \E k \in {[c \in Cells |-> IF c = 1 THEN ND ELSE I(1)]} :
          gdb = ("MaskNoWater" :> k)
                @@ ("procMask" :> [c \in Cells |-> I(1)])
                @@ ("soilLoss" :> [c \in Cells |-> I(10 * c)])
                @@ ("runoff" :> [c \in Cells |-> I(c)])
                @@ ("NHDPlusCatchment" :> [c \in Cells |-> 1])
                @@ ("NHDFlowline" :> (1 :> I(1)))
                @@ ("clpShp" :> Cells)
                @@ ("FlowLength" :> [c \in Cells |-> I(275)])
                @@ ("SinkPolys" :> [c \in Cells |-> I(c)])
                @@ ("KarstPolys" :> {1})
                @@ ("sinkDens" :> [c \in Cells |-> I(40)])
                @@ ("in_FlowScore" :> [c \in Cells |-> I(40)])
                @@ ("in_KarstScore" :> [c \in Cells |-> I(100)])
                @@ ("in_PositionScore" :> [c \in Cells |-> I(100)])
                @@ ("in_SoilSensScore" :> [c \in Cells |-> I(40)])
                @@ ("in_ImpactScore" :> [c \in Cells |-> I(40)])
                @@ ("in_ImportanceScore" :> [c \in Cells |-> I(50)])
                @@ ("ConsMask" :> [c \in Cells |-> I(1)])
                @@ ("RestMask" :> [c \in Cells |-> I(1)])
                @@ ("MgmtMask" :> [c \in Cells |-> I(1)])
                @@ ("gdbA/HW" :> [c \in Cells |-> 1])
    /\ vat = <<>>
    /\ env = EnvDefault

\* The function returns: the next call can start.
Return ==
    /\ pc = "done" \/ call.fn = "makeHdwtrsIndicator"
    /\ pc' = "idle"
    /\ call' = [fn |-> "none"]
    /\ outcome' = "none"
    /\ ret' = <<>>
    /\ UNCHANGED <<printed, gdb, vat, env>>

\* The calls of a session: each reads rasters that no other call writes,
\* except the headwaters raster and the sinkhole density.
SessionFlow ==
    \E in_Hdwtrs \in {"NONE"} \cup ({"Hdwtrs"} \cap DOMAIN gdb) :
        calcFlowScore("FlowLength", "out_FlowScore", in_Hdwtrs, I(50), I(500), Q(9, 10))

SessionPosition == calcPositionScore("in_FlowScore", "in_KarstScore", "out_PositionScore")

SessionImpact == calcImpactScore("in_PositionScore", "in_SoilSensScore", "out_ImpactScore")

SessionImportance ==
    calcImportanceScore(<<<<"gdbA/HW", I(1)>>>>, "in_Snap", "out_ImportanceScore")

SessionPriority ==
    calcPriorityScores("in_ImpactScore", Path("in_ImportanceScore"), "ConsMask", "RestMask",
                       "MgmtMask", "out_GDB", "NONE", defaultSlice, "NONE")

NextSession ==
    \/ CallCalcSoilSensScore
    \/ CallMakeHdwtrsIndicator
    \/ SessionFlow
    \/ CallCalcSinkScore
    \/ CallCalcKarstScore
    \/ SessionPosition
    \/ SessionImpact
    \/ SessionImportance
    \/ SessionPriority
    \/ Return

SpecSession == InitSession /\ [][NextSession]_vars

\* A step that starts (and completes) a call, and the mask the call assigns:
\* its mask argument for a function that sets the mask, none for the others.
IsCallStep == call' # call /\ call'.fn # "none"

AssignedMask(c) ==
    IF c.fn \in {"calcSoilSensScore", "makeHdwtrsIndicator"} THEN c.in_Mask
    ELSE IF c.fn = "calcFlowScore" THEN c.in_Hdwtrs
    ELSE IF c.fn \in {"calcSinkScore", "calcKarstScore"} THEN c.clipMask
    ELSE "NONE"

(***************************************************************************)
(* C28: the ambient mask persists across calls.  A completed call of       *)
(* calcSoilSensScore, makeHdwtrsIndicator, calcFlowScore, calcSinkScore or *)
(* calcKarstScore that is given a mask leaves that mask in arcpy.env (the  *)
(* clip mask, not the processing mask, for the last two) and does not put  *)
(* the previous one back; calcPositionScore, calcImpactScore,              *)
(* calcImportanceScore and calcPriorityScores, and a return, leave the     *)
(* mask as it is.  So the mask is always the one assigned last.            *)
(***************************************************************************)
C28_MaskPersists ==
    [][IF IsCallStep /\ outcome' = "ok" /\ AssignedMask(call') # "NONE"
       THEN env'.mask = AssignedMask(call')
       ELSE (IsCallStep /\ outcome' # "ok") \/ env'.mask = env.mask]_vars

\* calcPositionScore has run under the mask that an earlier call left: a cell
\* with flow and karst scores outside that mask has no position score.
C28_Witness ==
    /\ pc = "done" /\ call.fn = "calcPositionScore" /\ outcome = "ok"
    /\ env.mask = "MaskNoWater"
    /\ "KarstScore" \in DOMAIN gdb
    /\ \E c \in Cells : /\ gdb["MaskNoWater"][c] = ND
                        /\ gdb[call.in_FlowScore][c] # ND
                        /\ gdb[call.out_PositionScore][c] = ND

\* After calcKarstScore the mask is the clip mask, which is not the
\* processing mask the function set first.
C28_ClipMaskLeft ==
    /\ pc = "done" /\ call.fn = "calcKarstScore"
    /\ env.mask = call.clipMask /\ call.clipMask # call.procMask

(***************************************************************************)
(* main (WtrshdImpact_Workflow.py)                                         *)
(*                                                                         *)
(* The workflow as a sequence of stages.  Here gdb maps the name of a data *)
(* set to who wrote it: "primary" for an input of the workflow, "stale"    *)
(* for a product of an earlier run still in the processing geodatabase,    *)
(* or the stage of this run that wrote it.  pc is the stage to run next.   *)
(* Every tool and function a stage calls succeeds when the names it is     *)
(* called with are bound and the data sets it reads are there.             *)
(***************************************************************************)
\* Lines 31-74: the local names main assigns before the first stage.
mainInputs ==
    {"procGDB", "clpShp", "MaskNoWater", "procMask", "jurisbnd", "gdbList", "pmpPts",
     "pmpFld", "FlowLines", "Catchments", "NHDPlus_rastPath", "HUC4List", "in_Elev",
     "in_Rfactor", "KarstPolys", "SinkPolys"}

\* Lines 31-74: the inputs that are data sets (the others are paths of
\* folders, lists and field names).
primaryData ==
    {"clpShp", "MaskNoWater", "procMask", "jurisbnd", "gdbList", "pmpPts", "FlowLines",
     "Catchments", "NHDPlus_rastPath", "in_Elev", "in_Rfactor", "KarstPolys", "SinkPolys"}

\* Line 262: procList.
procList ==
    <<"runoff_Score", "soilLoss_Score", "soilSens_Score", "FlowScore", "KarstScore",
      "PositionScore", "ImpactScore">>

\* Lines 264-267: the TIF that finalize_gdbRas2Tif writes for a raster.
tifOf ==
    [runoff_Score |-> "runoff_Score.tif", soilLoss_Score |-> "soilLoss_Score.tif",
     soilSens_Score |-> "soilSens_Score.tif", FlowScore |-> "FlowScore.tif",
     KarstScore |-> "KarstScore.tif", PositionScore |-> "PositionScore.tif",
     ImpactScore |-> "ImpactScore.tif"]

\* The stages of main in program order: the names the stage's calls are
\* given (other than those the stage itself assigns), the data sets the
\* calls read from outside the stage, and the data sets they write.
mainStages ==
    << [stage |-> "soil loss",           \* lines 78-122
        names |-> {"in_Rfactor", "in_Elev", "clpShp", "gdbList", "procGDB"},
        reads |-> {"in_Rfactor", "in_Elev", "clpShp", "gdbList"},
        writes |-> {"rusleR", "rusleK", "rusleS", "slope_perc", "rusleRKSC_bare"}],
       [stage |-> "runoff",              \* lines 125-172
        names |-> {"pmpPts", "pmpFld", "in_Elev", "clpShp", "gdbList", "procGDB"},
        reads |-> {"pmpPts", "in_Elev", "clpShp", "gdbList"},
        writes |-> {"maxPrecip_gen24_topo250", "maxPrecip_gen24_topo10", "HydroGroup",
                    "curvNum_bare", "Retention_bare", "runoffDepth_bare"}],
       [stage |-> "soil sensitivity",    \* lines 175-185
        names |-> {"procGDB", "MaskNoWater"},
        reads |-> {"rusleRKSC_bare", "runoffDepth_bare", "MaskNoWater"},
        writes |-> {"soilLoss_Score", "runoff_Score", "soilSens_Score"}],
       [stage |-> "flow",                \* lines 188-213
        names |-> {"NHDPlus_rastPath", "HUC4List", "clpShp", "procGDB", "FlowLines",
                   "Catchments", "MaskNoWater"},
        reads |-> {"NHDPlus_rastPath", "clpShp", "FlowLines", "Catchments", "MaskNoWater"},
        writes |-> {"overlandFlowLength", "Hdwtrs", "FlowScore"}],
       [stage |-> "sinkhole density",    \* lines 220-227
        names |-> {"in_SinkPolys", "fld_Area", "procMask", "procGDB"},
        reads |-> {"SinkPolys", "procMask"},
        writes |-> {"sinkPoints", "sinkPoints_prj", "sinkDens"}],
       [stage |-> "karst",               \* lines 229-240
        names |-> {"KarstPolys", "procMask", "MaskNoWater", "procGDB"},
        reads |-> {"KarstPolys", "procMask", "MaskNoWater", "sinkDens"},
        writes |-> {"karst_Raster", "karst_eDist", "karst_distScore", "KarstScore"}],
       [stage |-> "position",            \* lines 243-249
        names |-> {"procGDB"},
        reads |-> {"FlowScore", "KarstScore"},
        writes |-> {"PositionScore"}],
       [stage |-> "impact",              \* lines 252-258
        names |-> {"procGDB"},
        reads |-> {"PositionScore", "soilSens_Score"},
        writes |-> {"ImpactScore"}],
       [stage |-> "finalize",            \* lines 261-267
        names |-> {"jurisbnd"},
        reads |-> {procList[i] : i \in 1..Len(procList)} \cup {"jurisbnd"},
        writes |-> {tifOf[procList[i]] : i \in 1..Len(procList)}] >>

StageNames == {mainStages[i].stage : i \in 1..Len(mainStages)}
stageIndex(name) == CHOOSE i \in 1..Len(mainStages) : mainStages[i].stage = name

\* Products of an earlier run that the processing geodatabase may still hold.
StaleProducts ==
    {"sinkDens", "FlowScore", "KarstScore", "PositionScore", "ImpactScore",
     "soilSens_Score", "runoff_Score"}

InitMain ==
    /\ pc = mainStages[1].stage
    /\ call = [fn |-> "main"]
    /\ outcome = "none"
    /\ ret = <<>>
    /\ printed = <<>>
    /\ \E stale \in SUBSET StaleProducts :
          gdb = [n \in primaryData \cup stale |-> IF n \in stale THEN "stale" ELSE "primary"]
    /\ vat = <<>>
    /\ env = EnvDefault

\* One stage of main: printed records the stages completed.
mainStep ==
    /\ pc \in StageNames
    /\ UNCHANGED <<call, ret, vat, env>>
    /\ \E s \in {mainStages[stageIndex(pc)]} :
          IF ~(s.names \subseteq mainInputs)
          THEN \* a name of the call is bound nowhere in main
               /\ outcome' = "NameError"
               /\ pc' = "failed"
               /\ UNCHANGED <<gdb, printed>>
          ELSE IF ~(s.reads \subseteq DOMAIN gdb)
          THEN \* a tool is given a data set that does not exist
               /\ outcome' = "ExecuteError"
               /\ pc' = "failed"
               /\ UNCHANGED <<gdb, printed>>
          ELSE /\ gdb' = [n \in DOMAIN gdb \cup s.writes |->
                             IF n \in s.writes THEN s.stage ELSE gdb[n]]
               /\ printed' = Append(printed, s.stage)
               /\ IF stageIndex(pc) = Len(mainStages)
                  THEN pc' = "done" /\ outcome' = "ok"
                  ELSE pc' = mainStages[stageIndex(pc) + 1].stage /\ outcome' = outcome

NextMain == mainStep

SpecMain == InitMain /\ [][NextMain]_vars

\* main runs on: a stage that can run does run.
SpecMainFair == SpecMain /\ WF_vars(mainStep)

MainFinished ==
    /\ pc = "done"
    /\ printed = [i \in 1..Len(mainStages) |-> mainStages[i].stage]
    /\ \A i \in 1..Len(procList) : tifOf[procList[i]] \in DOMAIN gdb

(***************************************************************************)
(* C27: every external call succeeding, main runs its stages in order      *)
(* (soil loss, runoff, soil sensitivity, flow, sinkhole density, karst,    *)
(* position, impact) without failing one, and eventually has called        *)
(* finalize_gdbRas2Tif for each of the seven score rasters.                *)
(***************************************************************************)
C27_Completes == <>MainFinished

\* The stages that complete do so in program order, and each has read only
\* workflow inputs and data sets written by an earlier stage of this run.
C27_InOrderReadsWritten ==
    /\ Len(printed) <= Len(mainStages)
    /\ \A i \in 1..Len(printed) :
          /\ printed[i] = mainStages[i].stage
          /\ \A n \in mainStages[i].reads :
                n \in primaryData \/ \E k \in 1..(i - 1) : n \in mainStages[k].writes

\* main has stopped at the sinkhole density stage.
C27_FailsAtSinkDensity ==
    /\ pc = "failed"
    /\ outcome = "NameError"
    /\ printed = <<"soil loss", "runoff", "soil sensitivity", "flow">>
    /\ "sinkDens" \notin DOMAIN gdb

\* No run gets past the sinkhole density stage.
C27_NeverPastSinkDensity == pc \notin {"karst", "position", "impact", "finalize", "done"}

(***************************************************************************)
(* The curve number tables                                                 *)
(*                                                                         *)
(* A curve number raster is made for one land-cover class of the tables    *)
(* and eventRunoff is run on it, as the workflow does for class 31.        *)
(***************************************************************************)
InitTable ==
    /\ pc = "idle"
    /\ call = [fn |-> "none"]
    /\ outcome = "none"
    /\ ret = <<>>
    /\ printed = <<>>
    /\ \E hg \in RastersOver({I(1), I(2), I(3), I(4)}) : gdb = ("hydroGrp" :> hg)
    /\ vat = <<>>
    /\ env = EnvDefault

\* Workflow line 160, for any class of the tables.
CurvNumOfClass == \E k \in DOMAIN dictA : curvNum(Num(k), "hydroGrp", "curvNum_bare")

\* Workflow line 167.
RunoffOfClass ==
    /\ "curvNum_bare" \in DOMAIN gdb
    /\ eventRunoff("curvNum_bare", Num(I(2)), "bare", 1000000, "CN", I(1), 0)

NextTable == CurvNumOfClass \/ RunoffOfClass \/ Return

SpecTable == InitTable /\ [][NextTable]_vars

\* The four tables have the same classes; every curve number is in 0..100,
\* does not decrease from A to D, and is 0 in one group only if in all.
TablesConsistent ==
    /\ DOMAIN dictA = DOMAIN dictB /\ DOMAIN dictB = DOMAIN dictC /\ DOMAIN dictC = DOMAIN dictD
    /\ \A k \in DOMAIN dictA :
          /\ \A i \in 1..4 : m[hydroGrps[i]][k] \in 0..100
          /\ dictA[k] <= dictB[k] /\ dictB[k] <= dictC[k] /\ dictC[k] <= dictD[k]
          /\ (\E i \in 1..4 : m[hydroGrps[i]][k] = 0) => (\A i \in 1..4 : m[hydroGrps[i]][k] = 0)

(***************************************************************************)
(* C30: the four curve number tables define the same land-cover classes;   *)
(* every curve number is an integer in 0..100, non-decreasing from group A *)
(* to D, and 0 in one group only if 0 in all four; so for a constant land  *)
(* cover the retention eventRunoff computes does not increase from group A *)
(* to group D.                                                             *)
(***************************************************************************)
C30_TableConsistency ==
    /\ TablesConsistent
    /\ (RunoffDone /\ outcome = "ok") =>
          \A c1 \in Cells, c2 \in Cells :
              Leq(gdb["hydroGrp"][c1], gdb["hydroGrp"][c2]) =>
                  Leq(gdb[RunoffOut["bare"].Retention][c2], gdb[RunoffOut["bare"].Retention][c1])

\* Bare land (class 31) on groups A and D: retention 1000/77 - 10 and
\* 1000/94 - 10.
C30_Witness ==
    /\ RunoffDone /\ outcome = "ok"
    /\ \E c1 \in Cells, c2 \in Cells :
          /\ gdb["hydroGrp"][c1] = I(1) /\ gdb["hydroGrp"][c2] = I(4)
          /\ gdb["curvNum_bare"][c1] = I(77) /\ gdb["curvNum_bare"][c2] = I(94)
          /\ gdb[RunoffOut["bare"].Retention][c1] = Sub(Q(1000, 77), I(10))
          /\ gdb[RunoffOut["bare"].Retention][c2] = Sub(Q(1000, 94), I(10))

====
